---- MODULE Spec2Model ----
(***************************************************************************)
(* Model of the question-generation core of v2-question-generator:         *)
(*   - domain/entities/batch.py, section.py, question.py                    *)
(*   - domain/value_objects/origin.py, metadata.py, classification.py       *)
(*   - application/use_cases/generate_questions.py                          *)
(*   - infrastructure/classification/service.py                             *)
(*                                                                         *)
(* Four specifications share the variables:                                 *)
(*   Spec          GenerateQuestionsUseCase.execute, one batch per step     *)
(*   SpecBatch     a Batch object driven by arbitrary API calls             *)
(*   SpecParse     GenerateQuestionsUseCase._parse_response as a function   *)
(*   SpecClassify  SemanticClassificationService, configured then classify  *)
(*                                                                         *)
(* Conventions.  Python values that the code only inspects by type or      *)
(* truthiness are modelled by tags: a text field is one of                  *)
(*   "absent" (key missing), "null" (None), "num" (a non-zero number),      *)
(*   "empty" (""), "text" (non-blank, not ending in "?"), "textq"           *)
(*   (non-blank, ending in "?").                                            *)
(* Floats are modelled by integers: metrics in 1/10000, weights in percent, *)
(* weighted scores in 1/1000000.  The request's question_type is FLASHCARD. *)
(***************************************************************************)
EXTENDS Integers, Sequences, FiniteSets, TLC

VARIABLES
    pc,                 \* position of the run: see each specification
    batches,            \* List[Batch] of execute / the Batch under test
    secStatus,          \* Section.status of every section, by section id
    cur,                \* index (1-based) of the batch the for loop is at
    all_questions,      \* execute: all_questions
    total_tokens,       \* execute: total_tokens
    total_cost,         \* execute: total_cost (integer cost units)
    batches_successful, \* execute: batches_successful
    batches_failed,     \* execute: batches_failed
    last,               \* what the last step did (operation, arguments, outcome)
    result,             \* GenerateQuestionsResult returned by execute
    request,            \* GenerateQuestionsRequest and the stored sections
    faults,             \* number of batches whose run was not the regular one
    experiment,         \* status of the experiment execute created, else "none"
    pin,                \* _parse_response: its arguments
    pout,               \* _parse_response: its outcome
    thr,                \* classifier: the thresholds and weights of the service
    cin,                \* classifier: the section given to classify
    cout,               \* classifier: the ClassificationResult returned
    LEGAL_TERMS,        \* classifier: the class attribute LEGAL_TERMS
    vq,                 \* validation: the questions the repository holds
    vres,               \* validation: what the last validation did
    fin,                \* batching helpers: the arguments of the call
    fout                \* batching helpers: the value returned

vars == <<pc, batches, secStatus, cur, all_questions, total_tokens, total_cost,
          batches_successful, batches_failed, last, result, request,
          faults, experiment, pin, pout, thr, cin, cout, LEGAL_TERMS, vq, vres, fin, fout>>

execVars == <<batches, secStatus, cur, all_questions, total_tokens, total_cost,
              batches_successful, batches_failed, last, result, request,
              faults, experiment>>
parseVars == <<pin, pout>>
clsVars == <<thr, cin, cout, LEGAL_TERMS>>
valVars == <<vq, vres>>
fnVars == <<fin, fout>>

----------------------------------------------------------------------------
(* Bounds of the model *)

MaxSections == 3        \* sections of a batch (SpecBatch, SpecParse)
MaxBatchSize == 2       \* request.batch_size ranges over 1..MaxBatchSize
MaxItems == 2           \* raw items in one model response (SpecParse)
MaxExecItems == 2       \* raw items in one model response (Spec)
MaxDocSections == 2     \* stored sections of the document (Spec)
MaxQuestions == 2       \* questions handed to Batch.complete in SpecBatch
MaxTokens == 3          \* length of a raw string response, in tokens
MaxFaults == 1          \* batches of one run that meet a fault or a defect (Spec)
MaxListLen == 11        \* sections given to the batching helpers (SpecBatching)
MaxChunkSize == 3       \* batch_size given to _create_batches (SpecBatching)

\* the class attribute LEGAL_TERMS as the source writes it (two of its 60
\* terms stand for all of them)
LegalTermsLiteral == {"ley", "plazo"}

\* Python None (a record, so that it compares with any record)
None == [t |-> "none"]

----------------------------------------------------------------------------
(* Sequence helpers *)

Range(s) == {s[i] : i \in 1..Len(s)}

SeqsUpTo(S, n) == UNION {[1..k -> S] : k \in 0..n}

Min(a, b) == IF a <= b THEN a ELSE b

\* s[i..j] of Python slicing s[i-1:j] (1-based, inclusive, clamped)
Slice(s, i, j) == SubSeq(s, i, Min(j, Len(s)))

RECURSIVE SelectSeqBy(_, _)
\* [x for x in s if x.status = st]
SelectSeqBy(s, st) ==
    IF s = <<>> THEN <<>>
    ELSE IF Head(s).status = st
         THEN <<Head(s)>> \o SelectSeqBy(Tail(s), st)
         ELSE SelectSeqBy(Tail(s), st)

----------------------------------------------------------------------------
(* domain/entities/section.py *)

SectionStatus == {"pending", "classified", "processed", "skipped", "error"}

\* Section.mark_as_processed applied to the sections ids of a batch
mark_as_processed(st, ids) ==
    [s \in DOMAIN st |-> IF s \in Range(ids) THEN "processed" ELSE st[s]]

\* A slip: only the first section of the batch marked
mark_as_error_first(st, ids) ==
    [s \in DOMAIN st |-> IF Len(ids) > 0 /\ s = ids[1] THEN "error" ELSE st[s]]

\* Section.mark_as_error applied to the sections ids of a batch
mark_as_error(st, ids) ==
    [s \in DOMAIN st |-> IF s \in Range(ids) THEN "error" ELSE st[s]]

----------------------------------------------------------------------------
(* domain/entities/batch.py *)

BatchStatus == {"pending", "processing", "completed", "failed", "partial"}

QuestionStatus == {"generated", "validated", "invalid", "exported"}

\* Batch.create: status PENDING, no questions, no result
BatchCreate(batch_id, sections) ==
    [id |-> batch_id, sections |-> sections, status |-> "pending",
     questions |-> <<>>, result |-> None, error_message |-> None]

\* Batch.start_processing
BatchStartProcessing(b) == [b EXCEPT !.status = "processing"]

\* A slip: complete() taking "some valid or some invalid" for PARTIAL
FinalStatusOr(questions, hasErrors) ==
    LET valid == SelectSeqBy(questions, "validated")
        invalid == SelectSeqBy(questions, "invalid")
    IN IF hasErrors /\ Len(questions) = 0 THEN "failed"
       ELSE IF Len(invalid) > 0 \/ Len(valid) > 0 THEN "partial"
       ELSE "completed"

\* A slip: complete() without the "errors and no questions" branch
FinalStatusNoFailed(questions, hasErrors) ==
    LET valid == SelectSeqBy(questions, "validated")
        invalid == SelectSeqBy(questions, "invalid")
    IN IF Len(invalid) > 0 /\ Len(valid) > 0 THEN "partial"
       ELSE "completed"

\* Batch.complete, "Determinar estado final"
FinalStatus(questions, hasErrors) ==
    LET valid == SelectSeqBy(questions, "validated")
        invalid == SelectSeqBy(questions, "invalid")
    IN IF hasErrors /\ Len(questions) = 0 THEN "failed"
       ELSE IF Len(invalid) > 0 /\ Len(valid) > 0 THEN "partial"
       ELSE "completed"

\* Batch.complete without its loop over the sections; hasErrors is
\* "errors and len(errors) > 0"
BatchComplete(b, questions, tokens, cost, hasErrors) ==
    [b EXCEPT !.questions = questions,
              !.result = [questions_generated |-> Len(questions),
                          questions_valid |->
                              Len(SelectSeqBy(questions, "validated")),
                          questions_invalid |->
                              Len(SelectSeqBy(questions, "invalid")),
                          has_errors |-> hasErrors,
                          tokens_used |-> tokens,
                          cost_usd |-> cost],
              !.status = FinalStatus(questions, hasErrors)]

\* Batch.fail without its loop over the sections
BatchFail(b, msg) == [b EXCEPT !.status = "failed", !.error_message = msg]

----------------------------------------------------------------------------
(* SpecBatch: one Batch of up to MaxSections sections, any sequence of      *)
(* start_processing / complete / fail calls                                 *)

\* ids of the n sections of a document, in extraction order, from `first`
SectionIds(first, n) == [i \in 1..n |-> first + i - 1]

\* questions as Batch.complete reads them: only their status
StatusQuestions ==
    {[i \in 1..Len(s) |-> [status |-> s[i]]] : s \in SeqsUpTo(QuestionStatus, MaxQuestions)}

InitBatch ==
    /\ pc = "batch"
    /\ \E n \in 1..MaxSections :
         /\ batches = <<BatchCreate(0, SectionIds(0, n))>>
         /\ secStatus \in [Range(SectionIds(0, n)) -> {"pending", "classified"}]
    /\ cur = 1
    /\ all_questions = <<>>
    /\ total_tokens = 0
    /\ total_cost = 0
    /\ batches_successful = 0
    /\ batches_failed = 0
    /\ last = [op |-> "create"]
    /\ result = None
    /\ request = None
    /\ faults = 0
    /\ experiment = "none"
    /\ pin = None
    /\ pout = None
    /\ thr = None
    /\ cin = None
    /\ cout = None
    /\ LEGAL_TERMS = LegalTermsLiteral
    /\ vq = <<>>
    /\ vres = None
    /\ fin = None
    /\ fout = None

ApiStartProcessing ==
    /\ pc = "batch"
    /\ batches' = [batches EXCEPT ![1] = BatchStartProcessing(@)]
    /\ last' = [op |-> "start_processing"]
    /\ UNCHANGED <<pc, secStatus, cur, all_questions, total_tokens, total_cost,
                   batches_successful, batches_failed, result, request,
                   faults, experiment>>
    /\ UNCHANGED parseVars /\ UNCHANGED clsVars
    /\ UNCHANGED valVars /\ UNCHANGED fnVars

ApiComplete ==
    /\ pc = "batch"
    /\ \E qs \in StatusQuestions, hasErrors \in BOOLEAN :
         /\ batches' = [batches EXCEPT ![1] = BatchComplete(@, qs, 0, 0, hasErrors)]
         /\ secStatus' = mark_as_processed(secStatus, batches[1].sections)
         /\ last' = [op |-> "complete", questions |-> qs, has_errors |-> hasErrors]
    /\ UNCHANGED <<pc, cur, all_questions, total_tokens, total_cost,
                   batches_successful, batches_failed, result, request,
                   faults, experiment>>
    /\ UNCHANGED parseVars /\ UNCHANGED clsVars
    /\ UNCHANGED valVars /\ UNCHANGED fnVars

ApiFail ==
    /\ pc = "batch"
    /\ batches' = [batches EXCEPT ![1] = BatchFail(@, "error")]
    /\ secStatus' = mark_as_error(secStatus, batches[1].sections)
    /\ last' = [op |-> "fail"]
    /\ UNCHANGED <<pc, cur, all_questions, total_tokens, total_cost,
                   batches_successful, batches_failed, result, request,
                   faults, experiment>>
    /\ UNCHANGED parseVars /\ UNCHANGED clsVars
    /\ UNCHANGED valVars /\ UNCHANGED fnVars

NextBatch == ApiStartProcessing \/ ApiComplete \/ ApiFail

SpecBatch == InitBatch /\ [][NextBatch]_vars

----------------------------------------------------------------------------
(* Properties of the Batch entity, checked under SpecBatch *)

BatchRank(st) ==
    CASE st = "pending" -> 0
      [] st = "processing" -> 1
      [] OTHER -> 2

\* C6: under any sequence of start_processing, complete and fail calls the
\* status of a Batch only moves forward along pending -> processing ->
\* {completed, failed, partial}; a terminal status never changes again.
C6_StatusOnlyMovesForward ==
    [][\/ batches'[1].status = batches[1].status
       \/ BatchRank(batches'[1].status) > BatchRank(batches[1].status)]_vars

\* C7: after Batch.complete(questions, ...) the status is partial if and only
\* if the questions include at least one validated and at least one invalid.
C7_PartialIffValidAndInvalid ==
    last.op = "complete" =>
        (batches[1].status = "partial"
            <=> /\ \E i \in 1..Len(last.questions) :
                     last.questions[i].status = "validated"
                /\ \E j \in 1..Len(last.questions) :
                     last.questions[j].status = "invalid")

C7_Witness ==
    /\ last.op = "complete"
    /\ batches[1].status = "partial"
    /\ Len(last.questions) >= 2

\* C8 (as stated): a Batch has status failed only through Batch.fail; a batch
\* finished through Batch.complete, with any arguments, never ends failed.
C8_FailedOnlyThroughFail ==
    batches[1].status = "failed" => last.op = "fail"

\* C8 (amended): the status is failed exactly after Batch.fail, or after
\* Batch.complete called with a non-empty errors list and no questions.
C8_FailedIffFailOrErrorsWithoutQuestions ==
    batches[1].status = "failed"
        <=> \/ last.op = "fail"
            \/ /\ last.op = "complete"
               /\ last.has_errors
               /\ Len(last.questions) = 0

C8_Witness ==
    /\ last.op = "complete"
    /\ last.has_errors
    /\ Len(last.questions) = 0
    /\ batches[1].status = "failed"

----------------------------------------------------------------------------
(* JSON values of a model response.                                         *)
(*   scalar  [t |-> "scalar", v |-> tag]: "null", "zero", "num", "false",   *)
(*           "true", "emptystr", "str", "emptyobj", "obj" (an object that   *)
(*           is not read as a dict of questions: only its truthiness and    *)
(*           iteration matter)                                              *)
(*   list    [t |-> "list", items |-> sequence of raw items]                *)
(*   dict    [t |-> "dict", pairs |-> sequence of [k, v]], in key order     *)
(*   raw     [t |-> "raw", tokens |-> sequence of tokens]: a Python str     *)

Scalar(tag) == [t |-> "scalar", v |-> tag]
List(items) == [t |-> "list", items |-> items]
Dict(pairs) == [t |-> "dict", pairs |-> pairs]
Raw(tokens) == [t |-> "raw", tokens |-> tokens]

ScalarTags ==
    {"null", "zero", "num", "false", "true", "emptystr", "str", "emptyobj", "obj"}

\* Python truthiness: "not v"
Falsy(v) ==
    \/ v.t = "scalar" /\ v.v \in {"null", "zero", "false", "emptystr", "emptyobj"}
    \/ v.t = "list" /\ Len(v.items) = 0

\* dict.get(key, default)
DictGet(d, key, default) ==
    IF \E i \in 1..Len(d.pairs) : d.pairs[i].k = key
    THEN d.pairs[CHOOSE i \in 1..Len(d.pairs) : d.pairs[i].k = key].v
    ELSE default

\* the section index a raw item reports in origen.section_id
SidAbsent == [k |-> "absent"]
SidNull == [k |-> "null"]
SidInt(n) == [k |-> "int", v |-> n]
\* a numeric string "n", a float n.0, a boolean
SidStr(n) == [k |-> "str", v |-> n]
SidFloat(n) == [k |-> "float", v |-> n]
SidBool(b) == [k |-> "bool", v |-> b]

\* a raw item of the questions list.  kind "dict": a JSON object with
\*   sid         origen.section_id
\*   dificultad  sm2_metadata.dificultad: "absent", "basico", "unknown"
\*   subtipo     sm2_metadata.subtipo: "absent", "definition", "unknown"
\*   anverso     contenido_tipo.anverso under any of its key names
\*   reverso     contenido_tipo.reverso under any of its key names
\*   document_id origen.document_id: "absent", or a str
\* any other kind ("str", "num", "null") is an item that is no JSON object.
Item(kind, sid, dificultad, subtipo, anverso, reverso) ==
    [kind |-> kind, sid |-> sid, dificultad |-> dificultad,
     subtipo |-> subtipo, anverso |-> anverso, reverso |-> reverso,
     document_id |-> "absent"]

\* the raw item whose origen object has a document_id of its own
ItemOfDocument(item, doc) == [item EXCEPT !.document_id = doc]

GoodItem == Item("dict", SidAbsent, "absent", "absent", "textq", "text")

----------------------------------------------------------------------------
(* domain/value_objects/metadata.py *)

\* QuestionMetadata.from_dict raises ValueError: Difficulty(...) or
\* QuestionSubtype(...) of a string that is no member of the enum
MetadataRaises(item) ==
    item.dificultad = "unknown" \/ item.subtipo = "unknown"

----------------------------------------------------------------------------
(* domain/entities/question.py *)

\* Question.create_flashcard: status GENERATED, no validation errors
create_flashcard(anverso, reverso, section_id, document_id) ==
    [type |-> "flashcards", question_text |-> anverso,
     anverso |-> anverso, reverso |-> reverso,
     section_id |-> section_id, document_id |-> document_id,
     status |-> "generated", validation_errors |-> {}]

\* v.strip() raises AttributeError: v is no str
NoStr(v) == v \in {"null", "num"}

\* "not v or not v.strip()" of a str
Blank(v) == v = "empty"

\* Question.validate raises: question_text.strip() of a number (line 200,
\* None is caught by "not self.question_text" first), then
\* content.anverso.strip(), content.reverso.strip() in _validate_flashcard
ValidateRaises(q) ==
    \/ q.question_text = "num"
    \/ NoStr(q.anverso)
    \/ NoStr(q.reverso)

\* the validation_errors Question.validate collects for a flashcard
ValidationErrors(q) ==
    (IF q.question_text = "null" \/ Blank(q.question_text)
        THEN {"Pregunta vacia"} ELSE {})
    \cup (IF Blank(q.anverso) THEN {"Frente de flashcard vacio"} ELSE {})
    \cup (IF Blank(q.reverso) THEN {"Reverso de flashcard vacio"} ELSE {})
    \cup (IF q.anverso # "textq"
        THEN {"Frente de flashcard debe terminar con '?'"} ELSE {})

\* Question.validate when it returns
Validate(q) ==
    LET errs == ValidationErrors(q)
    IN [q EXCEPT !.validation_errors = errs,
                 !.status = IF errs # {} THEN "invalid" ELSE "validated"]

----------------------------------------------------------------------------
(* application/use_cases/generate_questions.py: _parse_response *)

\* bool is a subclass of int: True is 1 and False is 0
SidIsInt(sid) == sid.k \in {"int", "bool"}
SidAsInt(sid) == IF sid.k = "bool" THEN (IF sid.v THEN 1 ELSE 0) ELSE sid.v

\* not origen_data["section_id"]: None, 0, 0.0 and False are falsy; the
\* numeric strings of the model are not empty
SidFalsy(sid) == sid.k = "null" \/ (sid.k \in {"int", "float", "bool"} /\ SidAsInt(sid) = 0)

\* A slip: the reported index used as a 0-based index
ResolveSectionIdZeroBased(sid, sections) ==
    IF sid.k = "int" /\ Len(sections) > 0
    THEN IF 0 <= sid.v /\ sid.v < Len(sections)
         THEN [raised |-> FALSE, id |-> sections[sid.v + 1]]
         ELSE [raised |-> FALSE, id |-> sections[1]]
    ELSE IF Len(sections) > 0
    THEN [raised |-> FALSE, id |-> sections[1]]
    ELSE IF sid.k = "null" THEN [raised |-> TRUE, id |-> 0]
    ELSE [raised |-> FALSE, id |-> IF sid.k = "int" THEN sid.v ELSE 0]

\* lines 373-399: the section id of the Origin built for a raw item.
\* An int with sections: the 1-based index into them, else their first one;
\* an absent or falsy value with sections: their first one.  Any other value
\* is left as reported, and Origin.from_dict reads int(section_id), 0 when
\* absent, raising TypeError for None.
ResolveSectionId(sid, sections) ==
    IF SidIsInt(sid) /\ Len(sections) > 0
    THEN LET idx == SidAsInt(sid) - 1
         IN IF 0 <= idx /\ idx < Len(sections)
            THEN [raised |-> FALSE, id |-> sections[idx + 1]]
            ELSE [raised |-> FALSE, id |-> sections[1]]
    ELSE IF Len(sections) > 0 /\ (sid.k = "absent" \/ SidFalsy(sid))
    THEN [raised |-> FALSE, id |-> sections[1]]
    ELSE IF sid.k = "null" THEN [raised |-> TRUE, id |-> 0]
    ELSE [raised |-> FALSE, id |-> IF sid.k = "absent" THEN 0 ELSE SidAsInt(sid)]

\* contenido.get(key, contenido.get(alias, ... "")): a missing field is ""
FieldOrDefault(v) == IF v = "absent" THEN "empty" ELSE v

\* lines 371-448: the body of the per-item try raises (the item is skipped)
ItemRaises(item, sections) ==
    \/ item.kind # "dict"
    \/ ResolveSectionId(item.sid, sections).raised
    \/ MetadataRaises(item)

\* lines 410-416: the Question built for a raw item that does not raise
ItemQuestion(item, sections, document_id) ==
    create_flashcard(FieldOrDefault(item.anverso), FieldOrDefault(item.reverso),
                     ResolveSectionId(item.sid, sections).id,
                     IF item.document_id = "absent" THEN document_id
                     ELSE item.document_id)

RECURSIVE ItemsQuestions(_, _, _)
\* lines 370-448: the loop over preguntas_raw
ItemsQuestions(items, sections, document_id) ==
    IF items = <<>> THEN <<>>
    ELSE (IF ItemRaises(Head(items), sections) THEN <<>>
          ELSE <<ItemQuestion(Head(items), sections, document_id)>>)
         \o ItemsQuestions(Tail(items), sections, document_id)

----------------------------------------------------------------------------
(* _parse_response, lines 304-344: a str content.  The string is a          *)
(* sequence of tokens:                                                      *)
(*   "thought"  a <thought>...</thought> block                              *)
(*   "fjson"    the fence ```json        "fence"  the fence ```             *)
(*   "txt"      prose without braces, brackets or backticks                 *)
(*   "obj"      the text of a JSON object {"preguntas": [item]}             *)
(*   "arr"      the text of a JSON array [item]                             *)
(*   "num"      the text of a JSON number                                   *)
(*   "bad"      text in braces that is no JSON, such as {oops}              *)

Tokens == {"thought", "fjson", "fence", "txt", "obj", "arr", "num", "bad"}

\* the value json.loads gives for the text of a token
TokenValue(tok) ==
    CASE tok = "obj" -> Dict(<<[k |-> "preguntas", v |-> List(<<GoodItem>>)]>>)
      [] tok = "arr" -> List(<<GoodItem>>)
      [] tok = "num" -> Scalar("num")

\* json.loads(text.strip()): None stands for JSONDecodeError
JsonLoads(toks) ==
    IF Len(toks) = 1 /\ toks[1] \in {"obj", "arr", "num"}
    THEN TokenValue(toks[1])
    ELSE None

\* re.sub(r'<thought>.*?</thought>', '', content)
StripThought(toks) == SelectSeq(toks, LAMBDA x : x # "thought")

\* index of the first token of toks in S, 0 if none
FirstIn(toks, S) ==
    IF \E i \in 1..Len(toks) : toks[i] \in S
    THEN CHOOSE i \in 1..Len(toks) :
            toks[i] \in S /\ \A j \in 1..(i - 1) : toks[j] \notin S
    ELSE 0

\* index of the last token of toks in S, 0 if none
LastIn(toks, S) ==
    IF \E i \in 1..Len(toks) : toks[i] \in S
    THEN CHOOSE i \in 1..Len(toks) :
            toks[i] \in S /\ \A j \in (i + 1)..Len(toks) : toks[j] \notin S
    ELSE 0

\* content.split(opening)[1].split("```")[0]: the text after the first
\* opening fence, up to the next fence of either kind or the end
FenceInterior(toks, opening) ==
    LET a == FirstIn(toks, opening)
        rest == SubSeq(toks, a + 1, Len(toks))
        b == FirstIn(rest, {"fjson", "fence"})
    IN IF b = 0 THEN rest ELSE SubSeq(rest, 1, b - 1)

\* re.search(r'(\{.*\}|\[.*\])', content, re.DOTALL) and json.loads of the
\* match: the match starts at the first brace or bracket and, greedy, ends at
\* the last closing character of the same kind.  "obj" and "bad" start with a
\* brace, "arr" with a bracket; "obj" and "arr" hold both kinds inside.
GreedySearch(toks) ==
    LET a == FirstIn(toks, {"obj", "arr", "bad"})
    IN IF a = 0 THEN None
       ELSE LET closers == IF toks[a] = "arr" THEN {"obj", "arr"}
                           ELSE {"obj", "arr", "bad"}
                b == LastIn(toks, closers)
            IN IF b = a /\ toks[a] \in {"obj", "arr"}
               THEN TokenValue(toks[a])
               ELSE None

\* A slip: the greedy search never tried
ExtractPayloadNoGreedy(tokens) ==
    LET content == StripThought(tokens)
        direct == JsonLoads(content)
        json_str == IF "fjson" \in Range(content)
                    THEN FenceInterior(content, {"fjson"})
                    ELSE IF "fence" \in Range(content)
                    THEN FenceInterior(content, {"fence"})
                    ELSE <<>>
    IN IF direct # None THEN direct
       ELSE IF json_str # <<>> THEN JsonLoads(json_str)
       ELSE None

\* lines 304-344: processed_content, None when the method returns []
ExtractPayload(tokens) ==
    LET content == StripThought(tokens)
        direct == JsonLoads(content)
        json_str == IF "fjson" \in Range(content)
                    THEN FenceInterior(content, {"fjson"})
                    ELSE IF "fence" \in Range(content)
                    THEN FenceInterior(content, {"fence"})
                    ELSE <<>>
    IN IF direct # None THEN direct
       ELSE IF json_str # <<>> THEN JsonLoads(json_str)
       ELSE GreedySearch(content)

\* lines 347-360: preguntas_raw of a dict, a list; None for any other value
QuestionsOf(content) ==
    IF content.t = "dict"
    THEN LET named == DictGet(content, "preguntas",
                              DictGet(content, "questions", List(<<>>)))
             lists == FirstIn([i \in 1..Len(content.pairs) |-> content.pairs[i].v.t],
                              {"list"})
         IN IF Falsy(named) /\ lists # 0 THEN content.pairs[lists].v ELSE named
    ELSE IF content.t = "list" THEN content
    ELSE None

\* line 370, enumerate(preguntas_raw) raises TypeError: a number or a boolean
\* is not iterable
NotIterable(v) == v.t = "scalar" /\ v.v \in {"num", "true"}

\* the elements the loop of line 370 visits: the items of a list; iterating a
\* str gives its characters and iterating an object gives its keys, each of
\* them a str
Elements(v) ==
    IF v.t = "list" THEN v.items
    ELSE <<Item("str", SidAbsent, "absent", "absent", "absent", "absent")>>

\* A slip: the loop of line 370 guarded by isinstance(preguntas_raw, list)
ParseValueGuarded(content, sections, document_id) ==
    LET preguntas_raw == QuestionsOf(content)
    IN IF preguntas_raw = None \/ Falsy(preguntas_raw) \/ preguntas_raw.t # "list"
       THEN [raised |-> FALSE, questions |-> <<>>]
       ELSE [raised |-> FALSE,
             questions |-> ItemsQuestions(Elements(preguntas_raw), sections,
                                          document_id)]

\* lines 346-451: _parse_response of a value that is no str
ParseValue(content, sections, document_id) ==
    LET preguntas_raw == QuestionsOf(content)
    IN IF preguntas_raw = None \/ Falsy(preguntas_raw)
       THEN [raised |-> FALSE, questions |-> <<>>]
       ELSE IF NotIterable(preguntas_raw)
       THEN [raised |-> TRUE, questions |-> <<>>]
       ELSE [raised |-> FALSE,
             questions |-> ItemsQuestions(Elements(preguntas_raw), sections,
                                          document_id)]

\* _parse_response(content, FLASHCARD, sections, document_id): whether it
\* raised, the questions returned, and the payload read from a str content
ParseResponse(content, sections, document_id) ==
    IF content.t = "raw"
    THEN LET payload == ExtractPayload(content.tokens)
         IN IF payload = None
            THEN [raised |-> FALSE, questions |-> <<>>, payload |-> None]
            ELSE [payload |-> payload] @@ ParseValue(payload, sections, document_id)
    ELSE [payload |-> content] @@ ParseValue(content, sections, document_id)

----------------------------------------------------------------------------
(* SpecParse: _parse_response applied once to an input drawn in Init *)

\* the section indexes a model reports
SidValues ==
    {SidAbsent, SidNull} \cup {SidInt(n) : n \in (-1..(MaxSections + 1)) \cup {99}}
    \cup {SidStr(2), SidFloat(2), SidBool(TRUE), SidBool(FALSE)}

\* raw items: the good item with at most one field changed, and the items
\* that are no JSON object
ParseItems ==
    {Item("dict", sid, "absent", "absent", "textq", "text") : sid \in SidValues}
    \cup {Item("dict", SidAbsent, d, "absent", "textq", "text") :
            d \in {"basico", "unknown"}}
    \cup {Item("dict", SidAbsent, "absent", st, "textq", "text") :
            st \in {"definition", "unknown"}}
    \cup {Item("dict", SidAbsent, "absent", "absent", a, "text") :
            a \in {"absent", "null", "num", "empty", "text"}}
    \cup {Item("dict", SidAbsent, "absent", "absent", "textq", r) :
            r \in {"absent", "null", "num", "empty"}}
    \cup {Item(k, SidAbsent, "absent", "absent", "absent", "absent") :
            k \in {"str", "num", "null"}}
    \cup {ItemOfDocument(GoodItem, "doc2")}

\* values of a dict entry other than a long list
SmallValues ==
    {Scalar(tag) : tag \in ScalarTags} \cup {List(<<>>), List(<<GoodItem>>)}

DictKeys == {"preguntas", "questions", "data"}

\* the contents a response can hold: a str, or an already-parsed value
ParseContents ==
    {Raw(toks) : toks \in SeqsUpTo(Tokens, MaxTokens)}
    \cup {Scalar(tag) : tag \in ScalarTags}
    \cup {List(l) : l \in SeqsUpTo(ParseItems, MaxItems)}
    \cup {Dict(<<[k |-> "preguntas", v |-> List(l)]>>) :
            l \in SeqsUpTo(ParseItems, MaxItems)}
    \cup {Dict(<<>>)}
    \cup {Dict(<<[k |-> key, v |-> val]>>) : key \in DictKeys, val \in SmallValues}
    \cup UNION {{Dict(<<[k |-> k1, v |-> v1], [k |-> k2, v |-> v2]>>) :
                    k2 \in DictKeys \ {k1},
                    v1 \in SmallValues, v2 \in SmallValues} : k1 \in DictKeys}

InitParse ==
    /\ pc = "parse"
    /\ \E content \in ParseContents, n \in 1..MaxSections, first \in {0, 101} :
         pin = [content |-> content, sections |-> SectionIds(first, n),
                document_id |-> "doc1"]
    /\ pout = None
    /\ batches = <<>>
    /\ secStatus = <<>>
    /\ cur = 0
    /\ all_questions = <<>>
    /\ total_tokens = 0
    /\ total_cost = 0
    /\ batches_successful = 0
    /\ batches_failed = 0
    /\ last = [op |-> "none"]
    /\ result = None
    /\ request = None
    /\ faults = 0
    /\ experiment = "none"
    /\ thr = None
    /\ cin = None
    /\ cout = None
    /\ LEGAL_TERMS = LegalTermsLiteral
    /\ vq = <<>>
    /\ vres = None
    /\ fin = None
    /\ fout = None

\* one call of _parse_response
Parse ==
    /\ pc = "parse"
    /\ pout' = ParseResponse(pin.content, pin.sections, pin.document_id)
    /\ pc' = "parsed"
    /\ UNCHANGED pin
    /\ UNCHANGED execVars /\ UNCHANGED clsVars
    /\ UNCHANGED valVars /\ UNCHANGED fnVars

NextParse == Parse

SpecParse == InitParse /\ [][NextParse]_vars

----------------------------------------------------------------------------
(* Spec: GenerateQuestionsUseCase.execute.  Begin is lines 93-139, each     *)
(* ProcessBatch step is one iteration of the loop of lines 141-205, Finish  *)
(* is lines 207-252.                                                        *)

\* ceil(a / b)
CeilDiv(a, b) == (a + b - 1) \div b

\* A slip: batch ids counted from 1
CreateBatchesIdsFromOne(sections, batch_size) ==
    [k \in 1..CeilDiv(Len(sections), batch_size) |->
        BatchCreate(k, Slice(sections, (k - 1) * batch_size + 1, k * batch_size))]

\* _create_batches: range(0, len(sections), batch_size), ids from 0
CreateBatches(sections, batch_size) ==
    [k \in 1..CeilDiv(Len(sections), batch_size) |->
        BatchCreate(k - 1, Slice(sections, (k - 1) * batch_size + 1, k * batch_size))]

\* the result of the early returns and of the outer except clause
ErrorResult(msg) ==
    [success |-> FALSE, error_message |-> msg,
     total_sections |-> 0, total_batches |-> 0,
     batches_successful |-> 0, batches_failed |-> 0,
     questions_generated |-> 0, questions_valid |-> 0, questions_invalid |-> 0,
     tokens_used |-> 0, cost_usd |-> 0]

\* raw items of the responses the model gives in Spec
ExecItems ==
    {GoodItem,
     Item("dict", SidAbsent, "absent", "absent", "text", "text"),
     Item("dict", SidAbsent, "absent", "absent", "textq", "null"),
     Item("str", SidAbsent, "absent", "absent", "absent", "absent")}

ExecContents ==
    {List(l) : l \in SeqsUpTo(ExecItems, MaxExecItems)}
    \cup {Dict(<<[k |-> "preguntas", v |-> Scalar("num")]>>),
          Raw(<<"txt">>),
          Raw(<<"fjson", "obj", "fence">>)}

\* what the collaborators do during one iteration of the loop
BatchEvents ==
    {[kind |-> "prompt_raises"], [kind |-> "llm_raises"]}
    \cup {[kind |-> "response", content |-> c, tokens_total |-> 7, cost_usd |-> 3] :
            c \in ExecContents}

\* the run of a batch in which no collaborator misbehaves
RegularEvent ==
    [kind |-> "response", content |-> List(<<GoodItem>>),
     tokens_total |-> 7, cost_usd |-> 3]

\* A slip: an except block that counts the failure without Batch.fail
ExceptBlockNoFail(b, why) ==
    [batch |-> b, mark |-> "error", questions |-> <<>>,
     tokens |-> 0, cost |-> 0, successful |-> 0, failed |-> 1, raised |-> why]

\* lines 202-205: the except block of the loop body
ExceptBlock(b, why) ==
    [batch |-> BatchFail(b, why), mark |-> "error", questions |-> <<>>,
     tokens |-> 0, cost |-> 0, successful |-> 0, failed |-> 1, raised |-> why]

\* A slip: a completed batch that is not counted as successful
CompleteBlockUncounted(b, questions, ev) ==
    LET validated == [i \in 1..Len(questions) |-> Validate(questions[i])]
    IN [batch |-> BatchComplete(b, validated, ev.tokens_total, ev.cost_usd, FALSE),
        mark |-> "processed", questions |-> validated,
        tokens |-> ev.tokens_total, cost |-> ev.cost_usd,
        successful |-> 0, failed |-> 0, raised |-> "none"]

\* lines 186-200: validate the questions, complete the batch, accumulate
CompleteBlock(b, questions, ev) ==
    LET validated == [i \in 1..Len(questions) |-> Validate(questions[i])]
    IN [batch |-> BatchComplete(b, validated, ev.tokens_total, ev.cost_usd, FALSE),
        mark |-> "processed", questions |-> validated,
        tokens |-> ev.tokens_total, cost |-> ev.cost_usd,
        successful |-> 1, failed |-> 0, raised |-> "none"]

\* lines 142-205: one iteration of the loop on batch b (already started)
RunBatch(b, ev, document_id) ==
    IF ev.kind = "prompt_raises" THEN ExceptBlock(b, "prompt")
    ELSE IF ev.kind = "llm_raises" THEN ExceptBlock(b, "llm")
    ELSE LET parsed == ParseResponse(ev.content, b.sections, document_id)
         IN IF parsed.raised THEN ExceptBlock(b, "parse")
            ELSE IF \E i \in 1..Len(parsed.questions) :
                        ValidateRaises(parsed.questions[i])
            THEN ExceptBlock(b, "validate")
            ELSE CompleteBlock(b, parsed.questions, ev)

\* Classification, and "none" for a section that was never classified
Classification == {"relevant", "auto_conserved", "review_needed", "discardable"}

\* the labels of consecutive stored sections are a window of this cycle
LabelCycle == <<"relevant", "discardable", "auto_conserved", "none", "review_needed">>

RECURSIVE FilterByLabel(_, _, _)
\* [s for s in sections if labels[s] in keep]
FilterByLabel(sections, labels, keep) ==
    IF sections = <<>> THEN <<>>
    ELSE IF labels[Head(sections)] \in keep
         THEN <<Head(sections)>> \o FilterByLabel(Tail(sections), labels, keep)
         ELSE FilterByLabel(Tail(sections), labels, keep)

\* Section.is_relevant: a section without classification counts as relevant
is_relevant(label) ==
    IF label = "none" THEN TRUE
    ELSE label \in {"relevant", "auto_conserved", "review_needed"}

\* SectionRepositoryCSV.find_all
find_all(req) == req.stored

\* A slip: find_relevant with DISCARDABLE among the relevant classifications
find_relevant_with_discardable(req) ==
    FilterByLabel(req.stored, req.labels, Classification)

\* SectionRepositoryCSV.find_relevant: the sections that have a classification
\* and whose classification is RELEVANT, AUTO_CONSERVED or REVIEW_NEEDED
find_relevant(req) ==
    FilterByLabel(req.stored, req.labels,
                  {"relevant", "auto_conserved", "review_needed"})

\* lines 101-105: the sections execute works on
Sections(req) ==
    IF req.only_relevant THEN find_relevant(req) ELSE find_all(req)

Init ==
    /\ pc = "start"
    /\ \E n \in 0..MaxDocSections, bs \in 1..MaxBatchSize,
          o \in 0..(Len(LabelCycle) - 1), only \in BOOLEAN :
         LET ids == SectionIds(0, n)
             labels == [s \in Range(ids) |->
                          LabelCycle[((o + s) % Len(LabelCycle)) + 1]]
         IN  /\ request = [document_id |-> "doc1", batch_size |-> bs,
                           only_relevant |-> only,
                           stored |-> ids, labels |-> labels]
             \* Section.classify sets the status CLASSIFIED
             /\ secStatus = [s \in Range(ids) |->
                               IF labels[s] = "none" THEN "pending"
                               ELSE "classified"]
    /\ faults = 0
    /\ experiment = "none"
    /\ batches = <<>>
    /\ cur = 0
    /\ all_questions = <<>>
    /\ total_tokens = 0
    /\ total_cost = 0
    /\ batches_successful = 0
    /\ batches_failed = 0
    /\ last = [op |-> "none"]
    /\ result = None
    /\ pin = None
    /\ pout = None
    /\ thr = None
    /\ cin = None
    /\ cout = None
    /\ LEGAL_TERMS = LegalTermsLiteral
    /\ vq = <<>>
    /\ vres = None
    /\ fin = None
    /\ fout = None

\* lines 93-139, when the LLM cannot be reached, no section is stored or a
\* collaborator raises: execute returns an error result
BeginFails ==
    /\ pc = "start"
    /\ \E why \in {"no_connection", "no_sections", "raise"} :
         /\ why = "no_sections" => Len(Sections(request)) = 0
         /\ result' = ErrorResult(why)
         /\ last' = [op |-> "begin", ok |-> FALSE]
         /\ experiment' \in IF why = "raise" THEN {"none", "running"} ELSE {"none"}
    /\ pc' = "done"
    /\ UNCHANGED <<batches, secStatus, cur, all_questions, total_tokens,
                   total_cost, batches_successful, batches_failed, request,
                   faults>>
    /\ UNCHANGED parseVars /\ UNCHANGED clsVars
    /\ UNCHANGED valVars /\ UNCHANGED fnVars

\* lines 93-139: the batches are created and the loop is entered
Begin ==
    /\ pc = "start"
    /\ Len(Sections(request)) > 0
    /\ batches' = CreateBatches(Sections(request), request.batch_size)
    /\ cur' = 1
    /\ experiment' = "running"
    /\ pc' = "loop"
    /\ last' = [op |-> "begin", ok |-> TRUE]
    /\ UNCHANGED <<secStatus, all_questions, total_tokens, total_cost,
                   batches_successful, batches_failed, result, request,
                   faults>>
    /\ UNCHANGED parseVars /\ UNCHANGED clsVars
    /\ UNCHANGED valVars /\ UNCHANGED fnVars

\* lines 141-205: one iteration of "for batch in batches"
ProcessBatch ==
    /\ pc = "loop"
    /\ cur <= Len(batches)
    /\ \E ev \in BatchEvents :
         /\ ev # RegularEvent => faults < MaxFaults
         /\ faults' = IF ev = RegularEvent THEN faults ELSE faults + 1
         /\ \E out \in {RunBatch(BatchStartProcessing(batches[cur]), ev,
                              request.document_id)} :
            /\ batches' = [batches EXCEPT ![cur] = out.batch]
            /\ secStatus' =
                 IF out.mark = "processed"
                 THEN mark_as_processed(secStatus, batches[cur].sections)
                 ELSE mark_as_error(secStatus, batches[cur].sections)
            /\ all_questions' = all_questions \o out.questions
            /\ total_tokens' = total_tokens + out.tokens
            /\ total_cost' = total_cost + out.cost
            /\ batches_successful' = batches_successful + out.successful
            /\ batches_failed' = batches_failed + out.failed
            /\ last' = [op |-> "batch", k |-> cur, ev |-> ev, raised |-> out.raised]
    /\ cur' = cur + 1
    /\ UNCHANGED <<pc, result, request, experiment>>
    /\ UNCHANGED parseVars /\ UNCHANGED clsVars
    /\ UNCHANGED valVars /\ UNCHANGED fnVars

\* lines 207-246: the questions are saved and the result is returned
Finish ==
    /\ pc = "loop"
    /\ cur > Len(batches)
    /\ result' =
         [success |-> TRUE, error_message |-> "",
          total_sections |-> Len(Sections(request)),
          total_batches |-> Len(batches),
          batches_successful |-> batches_successful,
          batches_failed |-> batches_failed,
          questions_generated |-> Len(all_questions),
          questions_valid |-> Len(SelectSeqBy(all_questions, "validated")),
          questions_invalid |-> Len(SelectSeqBy(all_questions, "invalid")),
          tokens_used |-> total_tokens, cost_usd |-> total_cost]
    /\ experiment' = "completed"
    /\ pc' = "done"
    /\ last' = [op |-> "finish", ok |-> TRUE]
    /\ UNCHANGED <<batches, secStatus, cur, all_questions, total_tokens,
                   total_cost, batches_successful, batches_failed, request,
                   faults>>
    /\ UNCHANGED parseVars /\ UNCHANGED clsVars
    /\ UNCHANGED valVars /\ UNCHANGED fnVars

\* lines 207-230 raise (save_all, update_results, complete, export_to_json):
\* the outer except clause of lines 248-252 returns an error result
FinishFails ==
    /\ pc = "loop"
    /\ cur > Len(batches)
    /\ result' = ErrorResult("raise")
    /\ \E at \in {"save_all", "update_results", "export_to_json"} :
         experiment' = IF at = "export_to_json" THEN "completed" ELSE experiment
    /\ pc' = "done"
    /\ last' = [op |-> "finish", ok |-> FALSE]
    /\ UNCHANGED <<batches, secStatus, cur, all_questions, total_tokens,
                   total_cost, batches_successful, batches_failed, request,
                   faults>>
    /\ UNCHANGED parseVars /\ UNCHANGED clsVars
    /\ UNCHANGED valVars /\ UNCHANGED fnVars

Next == BeginFails \/ Begin \/ ProcessBatch \/ Finish \/ FinishFails

Spec == Init /\ [][Next]_vars

----------------------------------------------------------------------------
(* Properties of _parse_response, checked under SpecParse *)

\* C2: _parse_response never raises: for every content (a dict, a list, a
\* str, any other value) it returns a list of questions.
C2_ParseNeverRaises ==
    pc = "parsed" => ~pout.raised

\* the raw items of a response that is a list, or a dict holding only the
\* list "preguntas"
C4_Items ==
    IF pin.content.t = "list" THEN pin.content.items
    ELSE IF /\ pin.content.t = "dict"
            /\ Len(pin.content.pairs) = 1
            /\ pin.content.pairs[1].k = "preguntas"
            /\ pin.content.pairs[1].v.t = "list"
    THEN pin.content.pairs[1].v.items
    ELSE <<>>

\* the raw item is a JSON object with a readable section index and metadata
C4_Kept(item) ==
    /\ item.kind = "dict"
    /\ item.dificultad # "unknown"
    /\ item.subtipo # "unknown"

\* C4: with N >= 1 batch sections, a reported section index i with
\* 1 <= i <= N is replaced by the id of the i-th section of the batch, and an
\* index out of that range, or no index, by the id of the first section.
C4_SectionIdRemap ==
    (/\ pc = "parsed"
     /\ Len(C4_Items) >= 1
     /\ \A i \in 1..Len(C4_Items) : C4_Kept(C4_Items[i]))
        => /\ ~pout.raised
           /\ Len(pout.questions) = Len(C4_Items)
           /\ \A i \in 1..Len(C4_Items) :
                LET sid == C4_Items[i].sid
                IN sid.k \in {"int", "null", "absent"}
                     => pout.questions[i].section_id =
                          IF sid.k = "int" /\ 1 <= sid.v /\ sid.v <= Len(pin.sections)
                          THEN pin.sections[sid.v]
                          ELSE pin.sections[1]

C4_Witness ==
    /\ pc = "parsed"
    /\ Len(C4_Items) = 2
    /\ \A i \in 1..2 : C4_Kept(C4_Items[i])
    /\ C4_Items[1].sid = SidInt(2)
    /\ C4_Items[2].sid = SidInt(99)
    /\ Len(pin.sections) >= 2
    /\ pout.questions[1].section_id = pin.sections[2]
    /\ pout.questions[2].section_id = pin.sections[1]
    /\ pin.sections[1] = 101

\* the chain of C5: each step is tried only when every earlier one failed
C5_Chain(tokens) ==
    LET content == StripThought(tokens)
        step1 == JsonLoads(content)
        step2 == IF "fjson" \in Range(content)
                 THEN JsonLoads(FenceInterior(content, {"fjson"}))
                 ELSE None
        step3 == IF Range(content) \cap {"fjson", "fence"} # {}
                 THEN JsonLoads(FenceInterior(content, {"fjson", "fence"}))
                 ELSE None
        step4 == GreedySearch(content)
    IN IF step1 # None THEN step1
       ELSE IF step2 # None THEN step2
       ELSE IF step3 # None THEN step3
       ELSE step4

\* C5: a str content is read by an ordered chain, the first step that parses
\* wins: (1) the whole string, (2) the interior of a ```json block, (3) the
\* interior of any fenced block, (4) a greedy search for an object or array;
\* only when all four fail is the result the empty list.
C5_FallbackChain ==
    (pc = "parsed" /\ pin.content.t = "raw")
        => pout.payload = C5_Chain(pin.content.tokens)

----------------------------------------------------------------------------
(* Properties of GenerateQuestionsUseCase.execute, checked under Spec *)

TerminalStatus == {"completed", "failed", "partial"}

\* C1: when prompt building, the LLM call, response parsing or question
\* validation raises for batch k, only batch k is aborted: Batch.fail is
\* called on it and batches_failed grows by one, the questions, tokens and
\* cost accumulated so far are kept, the other batches are untouched and the
\* loop goes on with batch k + 1; a successful run has processed every batch.
C1_FailureAbortsOnlyItsBatch ==
    /\ [][(pc = "loop" /\ cur <= Len(batches) /\ last'.op = "batch"
            /\ last'.raised # "none")
          => /\ batches'[cur].status = "failed"
             /\ batches_failed' = batches_failed + 1
             /\ batches_successful' = batches_successful
             /\ all_questions' = all_questions
             /\ total_tokens' = total_tokens
             /\ total_cost' = total_cost
             /\ \A j \in 1..Len(batches) : j # cur => batches'[j] = batches[j]
             /\ pc' = "loop"
             /\ cur' = cur + 1]_vars
    /\ []((pc = "done" /\ result.success)
            => /\ \A k \in 1..Len(batches) : batches[k].status \in TerminalStatus
               /\ batches_successful + batches_failed = Len(batches)
               /\ result.questions_generated = Len(all_questions))

C1_Witness ==
    /\ pc = "done"
    /\ result.success
    /\ Len(batches) = 2
    /\ batches[1].status = "failed"
    /\ batches[2].status = "completed"
    /\ Len(batches[2].questions) >= 1
    /\ all_questions = batches[2].questions
    /\ batches_failed = 1
    /\ batches_successful = 1

\* a raw item the per-item construction cannot turn into a sound question
C3_Defective(item) ==
    \/ item.kind # "dict"
    \/ item.dificultad = "unknown"
    \/ item.subtipo = "unknown"
    \/ item.anverso \in {"null", "num"}
    \/ item.reverso \in {"null", "num"}

\* C3: one defective record in an otherwise good response never aborts the
\* batch: the defective item is skipped, the batch is completed rather than
\* failed, and it yields one question, in order, for every other raw item.
C3_DefectiveItemSkipped ==
    (/\ last.op = "batch"
     /\ last.ev.kind = "response"
     /\ last.ev.content.t = "list"
     /\ Cardinality({i \in 1..Len(last.ev.content.items) :
                        C3_Defective(last.ev.content.items[i])}) = 1)
        => LET items == last.ev.content.items
               others == SelectSeq(items, LAMBDA it : ~C3_Defective(it))
               b == batches[last.k]
           IN /\ b.status # "failed"
              /\ Len(b.questions) = Len(others)
              /\ \A i \in 1..Len(others) :
                    b.questions[i].anverso = others[i].anverso

\* C9: Batch.complete sets every member section to processed and Batch.fail
\* sets every member section to error; when execute returns success every
\* section placed in a batch is processed if its batch was counted successful
\* and error if it was counted failed, none is left pending or classified.
C9_OutcomesPropagateToSections ==
    /\ last.op = "batch"
        => \A s \in Range(batches[last.k].sections) :
              secStatus[s] = IF batches[last.k].status = "failed"
                             THEN "error" ELSE "processed"
    /\ (pc = "done" /\ result.success)
        => /\ \A s \in Range(Sections(request)) :
                \E k \in 1..Len(batches) : s \in Range(batches[k].sections)
           /\ \A k \in 1..Len(batches) : \A s \in Range(batches[k].sections) :
                secStatus[s] = IF batches[k].status = "failed"
                               THEN "error" ELSE "processed"
           /\ Cardinality({k \in 1..Len(batches) : batches[k].status = "failed"})
                = batches_failed
           /\ \A s \in Range(Sections(request)) :
                secStatus[s] \notin {"pending", "classified"}

C9_Witness ==
    /\ pc = "done"
    /\ result.success
    /\ Len(batches) = 2
    /\ batches[1].status \in {"completed", "partial"}
    /\ batches[2].status = "failed"
    /\ \A s \in Range(batches[1].sections) : secStatus[s] = "processed"
    /\ \A s \in Range(batches[2].sections) : secStatus[s] = "error"

----------------------------------------------------------------------------
(* infrastructure/classification/service.py: SemanticClassificationService. *)
(* Metrics are integers in units of 1/10000 (the methods round to 4         *)
(* decimals), weights are in percent, so a composite score and the two      *)
(* score thresholds are in units of 1/1000000.                              *)

\* __init__: the default thresholds and weights
DefaultService ==
    [threshold_relevant |-> 700000, threshold_review |-> 500000,
     auto_conserve_length |-> 300,
     weight_as |-> 30, weight_rj |-> 40, weight_dc |-> 20, weight_cc |-> 10]

\* a text, by the features the four metrics read:
\*   length        len(text)
\*   diversity     distinct words / words, in percent
\*   sentences     sentences longer than 20 characters, counted up to 3
\*   term_density  min(1, legal terms / (words * 0.1)), in percent
\*   citations     matches of REFERENCE_PATTERNS, counted up to 3
\*   article       the text has the structure of an article
\*   concepts      definitions + enumerations + references, counted up to 5
\*   keywords      min(1, keywords / words / 0.3), in percent
\*   connectors    CLARITY_INDICATORS present: none or three and more
\*   paragraphs    paragraphs longer than 50 characters, counted up to 2
\*   contrato      the word "contrato", which is no term of the literal, is
\*                 at least every third word of the text; term_density and
\*                 keywords are the values under the literal LEGAL_TERMS
Texts ==
    {t \in [length : {50, 99, 100, 299, 300, 400},
            diversity : {20, 100},
            sentences : {0, 3},
            term_density : {0, 100},
            citations : {0, 3},
            article : BOOLEAN,
            concepts : {0, 5},
            keywords : {0, 100},
            connectors : {0, 3},
            paragraphs : {0, 2},
            contrato : {FALSE}] :
        /\ 21 * t.sentences <= t.length
        /\ 51 * t.paragraphs <= t.length
        /\ t.concepts >= t.citations}

\* _calculate_semantic_aptitude
CalculateSemanticAptitude(t) ==
    LET length_score == IF t.length < 100 THEN 20
                        ELSE IF t.length < 200 THEN 50
                        ELSE IF t.length <= 1500 THEN 100
                        ELSE IF t.length <= 3000 THEN 80
                        ELSE 60
    IN length_score * 40 + t.diversity * 30 + t.sentences * 1000

\* min(1.0, legal_term_count / (words * 0.1)) over the terms of LEGAL_TERMS
TermDensity(t, terms) ==
    IF t.contrato /\ "contrato" \in terms THEN 100 ELSE t.term_density

\* min(1.0, (keywords / len(words)) / 0.3), a keyword being a word of
\* LEGAL_TERMS or a word longer than 8 characters
KeywordRatio(t, terms) ==
    IF t.contrato /\ "contrato" \in terms THEN 100 ELSE t.keywords

\* _calculate_legal_relevance
CalculateLegalRelevance(t, terms) ==
    TermDensity(t, terms) * 50 + t.citations * 1000
        + (IF t.article THEN 2000 ELSE 600)

\* _calculate_conceptual_density
CalculateConceptualDensity(t, terms) ==
    t.concepts * 20 * 60 + KeywordRatio(t, terms) * 40

\* _calculate_contextual_clarity: title_score is 0.5
CalculateContextualClarity(t) ==
    1500 + (IF t.connectors >= 3 THEN 4000 ELSE 0) + t.paragraphs * 1500

\* calculate_metrics
CalculateMetrics(t, terms) ==
    [semantic_autonomy |-> CalculateSemanticAptitude(t),
     legal_relevance |-> CalculateLegalRelevance(t, terms),
     concept_density |-> CalculateConceptualDensity(t, terms),
     context_coherence |-> CalculateContextualClarity(t)]

\* _determine_classification
DetermineClassification(svc, text_length, final_score, as_score, rj_score) ==
    IF text_length >= svc.auto_conserve_length /\ as_score >= 5000
    THEN "auto_conserved"
    ELSE IF final_score >= svc.threshold_relevant /\ rj_score >= 6000
    THEN "relevant"
    ELSE IF final_score >= svc.threshold_review
    THEN "review_needed"
    ELSE IF text_length < 100 \/ final_score < 300000
    THEN "discardable"
    ELSE "auto_conserved"

\* ClassificationMetrics.__post_init__ raises ValueError: a metric outside
\* [0, 100] (metrics are in units of 1/10000)
MetricsPostInitRaises(m) ==
    \E f \in DOMAIN m : ~(0 <= m[f] /\ m[f] <= 1000000)

\* A slip: a score check without the upper limit
ResultPostInitRaisesBelowZero(score) == ~(0 <= score)

\* ClassificationResult.__post_init__ raises ValueError: a score outside
\* [0, 1] (scores are in units of 1/1000000)
ResultPostInitRaises(score) == ~(0 <= score /\ score <= 1000000)

\* classify: the metrics, the weighted score, the label, and the
\* ClassificationResult, whose __post_init__ raises ValueError for a score
\* outside [0, 1]
ClassifyText(svc, t) ==
    LET metrics == CalculateMetrics(t, LEGAL_TERMS)
        final_score == metrics.semantic_autonomy * svc.weight_as
                       + metrics.legal_relevance * svc.weight_rj
                       + metrics.concept_density * svc.weight_dc
                       + metrics.context_coherence * svc.weight_cc
        classification == DetermineClassification(svc, t.length, final_score,
                              metrics.semantic_autonomy, metrics.legal_relevance)
    IN IF ~MetricsPostInitRaises(metrics) /\ ~ResultPostInitRaises(final_score)
       THEN [raised |-> FALSE, classification |-> classification,
             score |-> final_score, metrics |-> metrics]
       ELSE [raised |-> TRUE, classification |-> None,
             score |-> final_score, metrics |-> metrics]

----------------------------------------------------------------------------
(* SpecClassify: a service is configured, then classifies one section *)

InitClassify ==
    /\ pc = "service"
    /\ thr = DefaultService
    /\ cin = None
    /\ cout = None
    /\ LEGAL_TERMS = LegalTermsLiteral
    /\ vq = <<>>
    /\ vres = None
    /\ fin = None
    /\ fout = None
    /\ batches = <<>>
    /\ secStatus = <<>>
    /\ cur = 0
    /\ all_questions = <<>>
    /\ total_tokens = 0
    /\ total_cost = 0
    /\ batches_successful = 0
    /\ batches_failed = 0
    /\ last = [op |-> "none"]
    /\ result = None
    /\ request = None
    /\ faults = 0
    /\ experiment = "none"
    /\ pin = None
    /\ pout = None

\* set_thresholds(relevant, review, auto_conserve_length)
SetThresholds ==
    /\ pc = "service"
    /\ \E relevant \in {700000, 900000}, review \in {500000, 200000},
          len \in {300, 100} :
         thr' = [thr EXCEPT !.threshold_relevant = relevant,
                            !.threshold_review = review,
                            !.auto_conserve_length = len]
    /\ UNCHANGED <<pc, cin, cout, LEGAL_TERMS>>
    /\ UNCHANGED execVars /\ UNCHANGED parseVars
    /\ UNCHANGED valVars /\ UNCHANGED fnVars

\* set_weights(semantic_autonomy, legal_relevance, concept_density,
\* context_coherence): the four values are stored as given
SetWeights ==
    /\ pc = "service"
    /\ \E w \in {<<30, 40, 20, 10>>, <<25, 25, 25, 25>>, <<100, 100, 100, 100>>} :
         thr' = [thr EXCEPT !.weight_as = w[1], !.weight_rj = w[2],
                            !.weight_dc = w[3], !.weight_cc = w[4]]
    /\ UNCHANGED <<pc, cin, cout, LEGAL_TERMS>>
    /\ UNCHANGED execVars /\ UNCHANGED parseVars
    /\ UNCHANGED valVars /\ UNCHANGED fnVars

\* classify(section)
Classify ==
    /\ pc = "service"
    /\ \E t \in Texts :
         /\ cin' = t
         /\ cout' = ClassifyText(thr, t)
    /\ pc' = "classified"
    /\ UNCHANGED <<thr, LEGAL_TERMS>>
    /\ UNCHANGED execVars /\ UNCHANGED parseVars
    /\ UNCHANGED valVars /\ UNCHANGED fnVars

\* a caller constructs ClassificationMetrics and ClassificationResult
\* directly, with values at and beyond the limits of their ranges
Construct ==
    /\ pc = "service"
    /\ \E m \in [{"semantic_autonomy", "legal_relevance", "concept_density",
                   "context_coherence"} -> {-1, 0, 1000000, 1000001}],
          score \in {-1, 0, 1000000, 1000001} :
         /\ cin' = [metrics |-> m, score |-> score]
         /\ cout' = [metrics_raised |-> MetricsPostInitRaises(m),
                     result_raised |-> ResultPostInitRaises(score)]
    /\ pc' = "constructed"
    /\ UNCHANGED <<thr, LEGAL_TERMS>>
    /\ UNCHANGED execVars /\ UNCHANGED parseVars
    /\ UNCHANGED valVars /\ UNCHANGED fnVars

NextClassify == SetThresholds \/ SetWeights \/ Classify \/ Construct

SpecClassify == InitClassify /\ [][NextClassify]_vars

----------------------------------------------------------------------------
(* Properties of the classifier, checked under SpecClassify *)

\* the label of the first matching rule of C10, rule by rule
C10_Label ==
    LET long == cin.length >= thr.auto_conserve_length
        sa == cout.metrics.semantic_autonomy
        lr == cout.metrics.legal_relevance
        rule1 == long /\ sa >= 5000
        rule2 == cout.score >= thr.threshold_relevant /\ lr >= 6000
        rule3 == cout.score >= thr.threshold_review
        rule4 == cin.length < 100 \/ cout.score < 300000
    IN CASE rule1 -> "auto_conserved"
         [] ~rule1 /\ rule2 -> "relevant"
         [] ~rule1 /\ ~rule2 /\ rule3 -> "review_needed"
         [] ~rule1 /\ ~rule2 /\ ~rule3 /\ rule4 -> "discardable"
         [] OTHER -> "auto_conserved"

\* C10: classify assigns the label of the first matching rule, in the order
\* (1) length >= auto_conserve_length and SA >= 0.5 -> AUTO_CONSERVED,
\* (2) score >= threshold_relevant and LR >= 0.6 -> RELEVANT, (3) score >=
\* threshold_review -> REVIEW_NEEDED, (4) length < 100 or score < 0.3 ->
\* DISCARDABLE, (5) otherwise AUTO_CONSERVED; exactly one label is always
\* assigned.
C10_FirstMatchingRule ==
    pc = "classified"
        => /\ ~cout.raised
           /\ cout.classification = C10_Label

\* the decision of C10 whenever classify returns a result
C10_FirstMatchingRuleWhenReturned ==
    (pc = "classified" /\ ~cout.raised) => cout.classification = C10_Label

\* C11: with the default thresholds 0.7 / 0.5 / 300, a section whose composite
\* score is >= threshold_relevant and whose legal relevance is above 0.6 is
\* classified RELEVANT, whatever its length.
C11_HighLegalIsRelevant ==
    (/\ pc = "classified"
     /\ thr.threshold_relevant = DefaultService.threshold_relevant
     /\ thr.threshold_review = DefaultService.threshold_review
     /\ thr.auto_conserve_length = DefaultService.auto_conserve_length
     /\ cout.score >= thr.threshold_relevant
     /\ cout.metrics.legal_relevance > 6000)
        => cout.classification = "relevant"

\* C12: with only_relevant = True no batch created by execute holds a section
\* classified DISCARDABLE: every batched section is labelled RELEVANT,
\* AUTO_CONSERVED or REVIEW_NEEDED, and no step of the generation changes the
\* status of a DISCARDABLE section.
C12_DiscardableNeverBatched ==
    /\ []((pc \in {"loop", "done"} /\ request.only_relevant)
            => \A k \in 1..Len(batches) : \A s \in Range(batches[k].sections) :
                  request.labels[s] \in {"relevant", "auto_conserved", "review_needed"})
    /\ [][request.only_relevant
            => \A s \in Range(request.stored) :
                  request.labels[s] = "discardable" => secStatus'[s] = secStatus[s]]_vars

C12_Witness ==
    /\ pc = "done"
    /\ result.success
    /\ request.only_relevant
    /\ Len(batches) >= 1
    /\ \E s \in Range(request.stored) :
          /\ request.labels[s] = "discardable"
          /\ secStatus[s] = "classified"
    /\ \E s \in Range(request.stored) :
          /\ request.labels[s] = "relevant"
          /\ secStatus[s] \in {"processed", "error"}

\* C13: execute always returns a result, and whenever at least one batch was
\* processed before something degraded (a batch failed, or a collaborator
\* raised after the loop), the returned result reports the counts of batches
\* and of generated, valid and invalid questions obtained so far, together
\* with an error message.
C13_DegradedRunReportsCounts ==
    (/\ pc = "done"
     /\ Len(batches) >= 1
     /\ (~result.success \/ batches_failed > 0))
        => /\ result.total_batches = Len(batches)
           /\ result.batches_successful = batches_successful
           /\ result.batches_failed = batches_failed
           /\ result.questions_generated = Len(all_questions)
           /\ result.questions_valid = Len(SelectSeqBy(all_questions, "validated"))
           /\ result.questions_invalid = Len(SelectSeqBy(all_questions, "invalid"))
           /\ result.error_message # ""

----------------------------------------------------------------------------
(* domain/entities/question.py and                                          *)
(* application/use_cases/validate_questions.py: the validation of stored    *)
(* questions.  A text is described by what the checks read of it: ws        *)
(* leading whitespace characters, plain ordinary characters, ctl control    *)
(* characters below U+0020 other than \n \r \t (U+0000, which str.strip     *)
(* keeps), fffd U+FFFD characters, and q, a final "?".                      *)

VText(ws, plain, ctl, fffd, q) ==
    [ws |-> ws, plain |-> plain, ctl |-> ctl, fffd |-> fffd, q |-> q]

\* len(text)
TextLen(t) == t.ws + t.plain + t.ctl + t.fffd + (IF t.q THEN 1 ELSE 0)

\* "not text.strip()" (and "not text" when the text is empty)
StripEmpty(t) == t.plain + t.ctl + t.fffd = 0 /\ ~t.q

\* text.rstrip().endswith("?")
EndsWithQuestionMark(t) == t.q

\* QuestionType: the values of the enumeration
QuestionType == {"flashcards", "verdadero_falso", "opcion_multiple", "completar_espacios"}

\* Question.mark_validated
mark_validated(q) == [q EXCEPT !.status = "validated", !.validation_errors = <<>>]

\* Question.mark_invalid
mark_invalid(q, errors) == [q EXCEPT !.status = "invalid", !.validation_errors = errors]

\* [e : c] of a conditional append
If(c, e) == IF c THEN <<e>> ELSE <<>>

\* Question._validate_flashcard
_validate_flashcard(content) ==
    If(StripEmpty(content.anverso), "Frente de flashcard vacio")
    \o If(StripEmpty(content.reverso), "Reverso de flashcard vacio")
    \o If(~EndsWithQuestionMark(content.anverso),
          "Frente de flashcard debe terminar con '?'")

\* Question._validate_true_false
_validate_true_false(content) ==
    If(StripEmpty(content.pregunta), "Afirmacion vacia")
    \o If(content.respuesta_correcta \notin BOOLEAN, "Respuesta debe ser booleana")

\* Question._validate_multiple_choice
_validate_multiple_choice(content) ==
    If(StripEmpty(content.pregunta), "Pregunta vacia")
    \o If(Len(content.opciones) # 4, "Debe tener exactamente 4 opciones")
    \o If(~(0 <= content.respuesta_correcta /\ content.respuesta_correcta <= 3),
          "Indice de respuesta correcta invalido")
    \o If(Cardinality(Range(content.opciones)) # Len(content.opciones),
          "Opciones duplicadas")

\* Question._validate_cloze
_validate_cloze(content) ==
    If(~content.texto_con_espacios.braces, "Texto debe contener espacios {{blank}}")
    \o If(content.respuestas_validas = <<>>, "Debe tener al menos una respuesta valida")

\* the errors Question.validate appends, in order (the origin is an Origin
\* object, which is never falsy)
FreshErrors(q) ==
    If(StripEmpty(q.question_text), "Pregunta vacia")
    \o (IF q.type = "flashcards" THEN _validate_flashcard(q.content)
        ELSE IF q.type = "verdadero_falso" THEN _validate_true_false(q.content)
        ELSE IF q.type = "opcion_multiple" THEN _validate_multiple_choice(q.content)
        ELSE IF q.type = "completar_espacios" THEN _validate_cloze(q.content)
        ELSE <<>>)

\* A slip: Question.validate without validation_errors.clear()
validate_without_clear(q) ==
    LET errs == q.validation_errors \o FreshErrors(q)
    IN  [q EXCEPT !.validation_errors = errs,
                  !.status = IF errs # <<>> THEN "invalid" ELSE "validated"]

\* Question.validate
validate(q) ==
    LET errs == FreshErrors(q)
    IN  [q EXCEPT !.validation_errors = errs,
                  !.status = IF errs # <<>> THEN "invalid" ELSE "validated"]

\* ValidateQuestionsUseCase.VALIDATION_RULES
VALIDATION_RULES ==
    [strict |-> [min_question_length |-> 20, require_justification |-> TRUE],
     moderate |-> [min_question_length |-> 15, require_justification |-> FALSE],
     lenient |-> [min_question_length |-> 10, require_justification |-> FALSE]]

\* lines 114-117: VALIDATION_RULES.get(level, VALIDATION_RULES["moderate"])
RulesOf(level) ==
    IF level \in DOMAIN VALIDATION_RULES THEN VALIDATION_RULES[level]
    ELSE VALIDATION_RULES["moderate"]

ValidationIssue(issue_type, message, auto_fixable) ==
    [issue_type |-> issue_type, message |-> message, auto_fixable |-> auto_fixable]

\* _check_problematic_chars: the code points reported, at most 5
_check_problematic_chars(text) ==
    Slice([i \in 1..text.ctl |-> "U+0000"] \o If(text.fffd > 0, "U+FFFD"), 1, 5)

\* reading content.<name> raises AttributeError when the content class has
\* no such attribute
HasAttr(content, name) == name \in DOMAIN content

\* _validate_by_type: [raised, issues].  The branches compare type.value
\* with "flashcard", "true_false", "multiple_choice" and "cloze" and read
\* content.front, .back, .justification, .options, .correct_index,
\* .text_with_blanks and .valid_answers
_validate_by_type(question, rules) ==
    LET content == question.content
    IN  IF question.type = "flashcard"
        THEN IF ~HasAttr(content, "front") \/ ~HasAttr(content, "back")
             THEN [raised |-> TRUE, issues |-> <<>>]
             ELSE [raised |-> FALSE,
                   issues |->
                     If(StripEmpty(content.front),
                        ValidationIssue("empty_front", <<"Frente de flashcard vacio">>, FALSE))
                     \o If(StripEmpty(content.back),
                           ValidationIssue("empty_back", <<"Reverso de flashcard vacio">>, FALSE))]
        ELSE IF question.type = "true_false"
        THEN IF rules.require_justification /\ ~HasAttr(content, "justification")
             THEN [raised |-> TRUE, issues |-> <<>>]
             ELSE [raised |-> FALSE,
                   issues |->
                     If(rules.require_justification /\ content.justification = "",
                        ValidationIssue("missing_justification", <<"Falta justificacion">>, FALSE))]
        ELSE IF question.type = "multiple_choice"
        THEN IF ~HasAttr(content, "options") \/ ~HasAttr(content, "correct_index")
             THEN [raised |-> TRUE, issues |-> <<>>]
             ELSE [raised |-> FALSE,
                   issues |->
                     If(Len(content.options) < 3,
                        ValidationIssue("insufficient_options",
                                        <<"Muy pocas opciones", Len(content.options)>>, FALSE))
                     \o If(content.correct_index >= Len(content.options),
                           ValidationIssue("invalid_correct_index",
                                           <<"Indice de respuesta correcta invalido">>, FALSE))
                     \o If(Len(content.options) # Cardinality(Range(content.options)),
                           ValidationIssue("duplicate_options", <<"Opciones duplicadas">>, FALSE))]
        ELSE IF question.type = "cloze"
        THEN IF ~HasAttr(content, "text_with_blanks") \/ ~HasAttr(content, "valid_answers")
             THEN [raised |-> TRUE, issues |-> <<>>]
             ELSE [raised |-> FALSE,
                   issues |->
                     If(~content.text_with_blanks.braces,
                        ValidationIssue("no_blanks",
                                        <<"No se encontraron espacios en blanco">>, FALSE))
                     \o If(content.valid_answers = <<>>,
                           ValidationIssue("no_valid_answers",
                                           <<"No hay respuestas validas definidas">>, FALSE))]
        ELSE [raised |-> FALSE, issues |-> <<>>]

\* "not origin.section_id": None and 0 are falsy
NoSectionId(sid) == sid = SidNull \/ sid = SidInt(0)

\* _validate_question: [raised, issues], the issues in the order of the checks
_validate_question(question, rules) ==
    LET text == question.question_text
        by_type == _validate_by_type(question, rules)
    IN  [raised |-> by_type.raised,
         issues |->
           If(TextLen(text) < rules.min_question_length,
              ValidationIssue("too_short", <<"Pregunta muy corta", TextLen(text)>>, FALSE))
           \o by_type.issues
           \o If(NoSectionId(question.section_id),
                 ValidationIssue("missing_origin",
                                 <<"Falta referencia a seccion de origen">>, FALSE))
           \o If(StripEmpty(text),
                 ValidationIssue("empty_content", <<"Pregunta vacia">>, FALSE))
           \o If(_check_problematic_chars(text) # <<>>,
                 ValidationIssue("problematic_chars",
                                 <<"Caracteres problematicos">> \o _check_problematic_chars(text),
                                 TRUE))]

\* A slip: the cleaning without the replace of U+FFFD
CleanedControlOnly(text) == [text EXCEPT !.ctl = 0]

\* lines 392-397: the text without control characters and without U+FFFD
Cleaned(text) == [text EXCEPT !.ctl = 0, !.fffd = 0]

\* the issue types of a list of issues
IssueTypes(issues) == {issues[i].issue_type : i \in 1..Len(issues)}

\* _try_auto_fix: [question, fixed]
_try_auto_fix(question, issues) ==
    IF /\ \E i \in 1..Len(issues) :
             issues[i].auto_fixable /\ issues[i].issue_type = "problematic_chars"
       /\ Cleaned(question.question_text) # question.question_text
    THEN [question |-> [question EXCEPT !.question_text = Cleaned(@)], fixed |-> TRUE]
    ELSE [question |-> question, fixed |-> FALSE]

\* lines 127-153: the body of the loop, for one question
ValidateOne(question, rules, auto_fix) ==
    LET first == _validate_question(question, rules)
        fix == IF first.issues # <<>> /\ auto_fix
               THEN _try_auto_fix(question, first.issues)
               ELSE [question |-> question, fixed |-> FALSE]
        again == IF fix.fixed THEN _validate_question(fix.question, rules) ELSE first
    IN  [raised |-> first.raised \/ again.raised,
         question |-> IF again.issues # <<>>
                      THEN mark_invalid(fix.question,
                                        [i \in 1..Len(again.issues) |-> again.issues[i].message])
                      ELSE mark_validated(fix.question),
         fixed |-> fix.fixed,
         first_issues |-> first.issues,
         issues |-> again.issues]

\* the number of true values of a sequence of booleans
CountTrue(s) == Cardinality({i \in 1..Len(s) : s[i]})

RECURSIVE Flatten(_)
Flatten(ss) == IF ss = <<>> THEN <<>> ELSE Head(ss) \o Flatten(Tail(ss))

\* ValidateQuestionsUseCase.execute: the questions the repository holds
\* afterwards and the ValidateQuestionsResult
ExecuteValidation(questions, level, auto_fix) ==
    LET rules == RulesOf(level)
        outs == [i \in 1..Len(questions) |-> ValidateOne(questions[i], rules, auto_fix)]
    IN  IF questions = <<>>
        THEN [questions |-> questions,
              result |-> [success |-> FALSE, total_questions |-> 0,
                          valid_questions |-> 0, invalid_questions |-> 0,
                          fixed_questions |-> 0, issues |-> <<>>],
              first_issues |-> <<>>]
        ELSE IF \E i \in 1..Len(outs) : outs[i].raised
        \* the questions before the one that raised are already marked; with
        \* the single stored question of this model none is
        THEN [questions |-> questions,
              result |-> [success |-> FALSE, total_questions |-> 0,
                          valid_questions |-> 0, invalid_questions |-> 0,
                          fixed_questions |-> 0, issues |-> <<>>],
              first_issues |-> <<>>]
        ELSE [questions |-> [i \in 1..Len(outs) |-> outs[i].question],
              result |->
                [success |-> TRUE, total_questions |-> Len(questions),
                 valid_questions |-> CountTrue([i \in 1..Len(outs) |-> outs[i].issues = <<>>]),
                 invalid_questions |-> CountTrue([i \in 1..Len(outs) |-> outs[i].issues # <<>>]),
                 fixed_questions |-> CountTrue([i \in 1..Len(outs) |-> outs[i].fixed]),
                 issues |-> Flatten([i \in 1..Len(outs) |-> outs[i].issues])],
              first_issues |-> Flatten([i \in 1..Len(outs) |-> outs[i].first_issues])]

\* the texts of the stored questions: lengths around the three minimum
\* lengths 10, 15 and 20, with and without characters to clean
Texts4Validation ==
    {VText(ws, plain, ctl, fffd, q) :
        ws \in {0, 1}, plain \in {0, 8, 13, 18},
        ctl \in {0, 1}, fffd \in {0, 1}, q \in BOOLEAN}

OptionLists ==
    {<<"a", "b">>, <<"a", "b", "c">>, <<"a", "b", "c", "d">>,
     <<"a", "b", "c", "c">>, <<"a", "b", "c", "d", "e">>}

\* the content the factory methods of Question build around a question text
ContentsOf(type, text) ==
    IF type = "flashcards"
    THEN {[anverso |-> text, reverso |-> r] :
            r \in {VText(0, 0, 0, 0, FALSE), VText(0, 8, 0, 0, FALSE)}}
    ELSE IF type = "verdadero_falso"
    THEN {[pregunta |-> text, respuesta_correcta |-> TRUE, explicacion |-> e] :
            e \in {"", "text"}}
    ELSE IF type = "opcion_multiple"
    THEN {[pregunta |-> text, opciones |-> o, respuesta_correcta |-> c,
           explicacion |-> ""] : o \in OptionLists, c \in {-1, 0, 4}}
    ELSE {[texto_con_espacios |-> [text |-> text, braces |-> b],
           respuestas_validas |-> a] : b \in BOOLEAN, a \in {<<>>, <<"x">>}}

\* Question.create_flashcard, create_true_false, create_multiple_choice and
\* create_cloze: status GENERATED, no validation errors; the origin refers to
\* no section, to the first extracted section (id 0) or to a later one
StoredQuestions ==
    UNION {{[type |-> type, question_text |-> text, content |-> content,
             section_id |-> sid, status |-> "generated", validation_errors |-> <<>>] :
               content \in ContentsOf(type, text),
               sid \in {SidNull, SidInt(0), SidInt(3)}} :
           type \in QuestionType, text \in Texts4Validation}

\* ValidateQuestionsRequest.validation_level; "other" is no key of the rules
ValidationLevels == {"strict", "moderate", "lenient", "other"}

InitValidate ==
    /\ pc = "validation"
    /\ vq \in {<<>>} \cup {<<q>> : q \in StoredQuestions}
    /\ vres = [op |-> "none"]
    /\ batches = <<>>
    /\ secStatus = <<>>
    /\ cur = 0
    /\ all_questions = <<>>
    /\ total_tokens = 0
    /\ total_cost = 0
    /\ batches_successful = 0
    /\ batches_failed = 0
    /\ last = [op |-> "none"]
    /\ result = None
    /\ request = None
    /\ faults = 0
    /\ experiment = "none"
    /\ pin = None
    /\ pout = None
    /\ thr = None
    /\ cin = None
    /\ cout = None
    /\ LEGAL_TERMS = LegalTermsLiteral
    /\ fin = None
    /\ fout = None

\* the call repeats the previous one: same operation, same arguments
Repeated(op, args) == vres.op = op /\ vres.args = args

\* a caller runs Question.validate on a stored question
CallValidate ==
    /\ pc = "validation"
    /\ \E i \in 1..Len(vq) :
         /\ vq' = [vq EXCEPT ![i] = validate(@)]
         /\ vres' = [op |-> "validate", args |-> <<i>>,
                     repeated |-> Repeated("validate", <<i>>)]
    /\ UNCHANGED pc
    /\ UNCHANGED execVars /\ UNCHANGED parseVars /\ UNCHANGED clsVars
    /\ UNCHANGED fnVars

\* ValidateQuestionsUseCase.execute
CallExecuteValidation ==
    /\ pc = "validation"
    /\ \E level \in ValidationLevels, auto_fix \in BOOLEAN :
         \E out \in {ExecuteValidation(vq, level, auto_fix)} :
            /\ vq' = out.questions
            /\ vres' = [op |-> "execute", args |-> <<level, auto_fix>>,
                        repeated |-> Repeated("execute", <<level, auto_fix>>),
                        result |-> out.result, first_issues |-> out.first_issues]
    /\ UNCHANGED pc
    /\ UNCHANGED execVars /\ UNCHANGED parseVars /\ UNCHANGED clsVars
    /\ UNCHANGED fnVars

NextValidate == CallValidate \/ CallExecuteValidation

SpecValidate == InitValidate /\ [][NextValidate]_vars

C15_Executed(auto_fix) ==
    /\ vres.op = "execute"
    /\ vres.result.success
    /\ vres.args[2] = auto_fix
    /\ Len(vq) = 1

\* C15 as stated: with auto_fix, a question whose only issue is
\* problematic_chars has these characters removed, is counted as fixed and is
\* left with status validated.
C15_OnlyProblematicCharsEndsValidated ==
    (/\ C15_Executed(TRUE)
     /\ IssueTypes(vres.first_issues) = {"problematic_chars"})
        => /\ vq[1].question_text.ctl = 0
           /\ vq[1].question_text.fffd = 0
           /\ vres.result.fixed_questions = 1
           /\ vq[1].status = "validated"

\* C15, amended: with auto_fix, a question that has a problematic_chars issue
\* has these characters removed and is counted as fixed; the full validation
\* is run again on the cleaned text and the question ends validated exactly
\* when that text raises no issue, which for a question whose only issue was
\* problematic_chars means that the cleaned text is not blank and still has
\* the minimum length.  Without auto_fix no step changes question_text.
C15_FixedThenRevalidated ==
    /\ []((/\ C15_Executed(TRUE)
           /\ "problematic_chars" \in IssueTypes(vres.first_issues))
            => /\ vq[1].question_text.ctl = 0
               /\ vq[1].question_text.fffd = 0
               /\ vres.result.fixed_questions = 1
               /\ vres.result.issues
                    = _validate_question(vq[1], RulesOf(vres.args[1])).issues
               /\ vq[1].status = "validated" <=> vres.result.issues = <<>>
               /\ IssueTypes(vres.first_issues) = {"problematic_chars"}
                    => (vq[1].status = "validated"
                          <=> /\ ~StripEmpty(vq[1].question_text)
                              /\ TextLen(vq[1].question_text)
                                   >= RulesOf(vres.args[1]).min_question_length))
    /\ [][(vres'.op = "validate" \/ (vres'.op = "execute" /\ ~vres'.args[2]))
            => \A i \in 1..Len(vq) : vq'[i].question_text = vq[i].question_text]_vars

C15_Witness ==
    /\ C15_Executed(TRUE)
    /\ IssueTypes(vres.first_issues) = {"problematic_chars"}
    /\ vres.result.fixed_questions = 1
    /\ vq[1].status = "validated"
    /\ vq[1].question_text.ctl = 0

\* C16: at every validation level the use case applies the per-type checks: a
\* multiple-choice question whose options are not exactly 4 distinct strings,
\* or whose correct index is outside the options, ends with status invalid.
C16_BadMultipleChoiceEndsInvalid ==
    (/\ vres.op = "execute"
     /\ Len(vq) = 1
     /\ vq[1].type = "opcion_multiple"
     /\ \/ Len(vq[1].content.opciones) # 4
        \/ Cardinality(Range(vq[1].content.opciones)) # 4
        \/ vq[1].content.respuesta_correcta \notin 0..(Len(vq[1].content.opciones) - 1))
        => /\ vres.result.success
           /\ vq[1].status = "invalid"

\* C17: the use case raises missing_origin only for a question without a
\* section reference: a question whose origin.section_id is the id of a
\* section, the id 0 of the first extracted section included, is not flagged
\* missing_origin.
C17_MissingOriginOnlyWithoutSection ==
    (/\ vres.op = "execute"
     /\ vres.result.success
     /\ Len(vq) = 1
     /\ vq[1].section_id.k = "int")
        => /\ "missing_origin" \notin IssueTypes(vres.first_issues)
           /\ "missing_origin" \notin IssueTypes(vres.result.issues)

----------------------------------------------------------------------------
(* application/use_cases/generate_questions.py: _create_batches and         *)
(* _calculate_optimal_batch_size, called on their own.  A section is its id *)
(* and its text_length.                                                     *)

RECURSIVE Insert(_, _)
\* x put at its place in the ascending sequence s
Insert(x, s) ==
    IF s = <<>> THEN <<x>>
    ELSE IF x <= Head(s) THEN <<x>> \o s
    ELSE <<Head(s)>> \o Insert(x, Tail(s))

RECURSIVE Sorted(_)
\* sorted(s)
Sorted(s) == IF s = <<>> THEN <<>> ELSE Insert(Head(s), Sorted(Tail(s)))

\* A slip: the largest length taken for P90
P90IndexLast(n) == n - 1

\* int(len(lengths) * 0.90), a 0-based index
P90Index(n) == (9 * n) \div 10

\* _calculate_optimal_batch_size: [raised, value]; lengths[-1] of an empty
\* list raises IndexError
CalculateOptimalBatchSize(sections) ==
    LET lengths == Sorted([i \in 1..Len(sections) |-> sections[i].text_length])
        p90_index == P90Index(Len(lengths))
    IN  IF lengths = <<>> THEN [raised |-> TRUE, value |-> 0]
        ELSE LET p90 == IF p90_index < Len(lengths) THEN lengths[p90_index + 1]
                        ELSE lengths[Len(lengths)]
             IN  [raised |-> FALSE,
                  value |-> IF p90 > 5000 THEN 2
                            ELSE IF p90 > 3000 THEN 3
                            ELSE IF p90 > 1500 THEN 5
                            ELSE 10]

\* text lengths at and around the three thresholds
TextLengths == {100, 1500, 1501, 3000, 3001, 5000, 5001, 6000}

\* section lists of n sections: n - k sections of length a and k of length b,
\* the longer ones last or first
SectionLists ==
    UNION {{[i \in 1..n |-> [id |-> i - 1,
                             text_length |-> IF (i <= n - k) = up THEN a ELSE b]] :
               k \in 0..n, up \in BOOLEAN} :
           n \in 0..MaxListLen, a \in TextLengths, b \in TextLengths}

InitBatching ==
    /\ pc = "batching"
    /\ \E sections \in SectionLists, batch_size \in 1..MaxChunkSize :
         fin = [sections |-> sections, batch_size |-> batch_size]
    /\ fout = [op |-> "none"]
    /\ batches = <<>>
    /\ secStatus = <<>>
    /\ cur = 0
    /\ all_questions = <<>>
    /\ total_tokens = 0
    /\ total_cost = 0
    /\ batches_successful = 0
    /\ batches_failed = 0
    /\ last = [op |-> "none"]
    /\ result = None
    /\ request = None
    /\ faults = 0
    /\ experiment = "none"
    /\ pin = None
    /\ pout = None
    /\ thr = None
    /\ cin = None
    /\ cout = None
    /\ LEGAL_TERMS = LegalTermsLiteral
    /\ vq = <<>>
    /\ vres = None

\* one call of _create_batches
CallCreateBatches ==
    /\ pc = "batching"
    /\ fout' = [op |-> "create_batches",
                value |-> CreateBatches(fin.sections, fin.batch_size)]
    /\ pc' = "returned"
    /\ UNCHANGED fin
    /\ UNCHANGED execVars /\ UNCHANGED parseVars /\ UNCHANGED clsVars
    /\ UNCHANGED valVars

\* one call of _calculate_optimal_batch_size
CallCalculateOptimalBatchSize ==
    /\ pc = "batching"
    /\ fout' = [op |-> "optimal_batch_size"] @@ CalculateOptimalBatchSize(fin.sections)
    /\ pc' = "returned"
    /\ UNCHANGED fin
    /\ UNCHANGED execVars /\ UNCHANGED parseVars /\ UNCHANGED clsVars
    /\ UNCHANGED valVars

NextBatching == CallCreateBatches \/ CallCalculateOptimalBatchSize

SpecBatching == InitBatching /\ [][NextBatching]_vars

RECURSIVE C18_Concat(_)
C18_Concat(bs) ==
    IF bs = <<>> THEN <<>> ELSE Head(bs).sections \o C18_Concat(Tail(bs))

\* C18: _create_batches chunks the sections in their order: the batches'
\* section lists concatenated give the input list, every batch but the last
\* holds batch_size sections, the last between 1 and batch_size, and the k-th
\* batch has id k counting from 0; 7 sections with batch_size 3 give the sizes
\* 3, 3, 1 and the ids 0, 1, 2.
C18_CreateBatchesChunksInOrder ==
    fout.op = "create_batches"
        => LET bs == fout.value
               size == fin.batch_size
           IN /\ C18_Concat(bs) = fin.sections
              /\ \A k \in 1..Len(bs) :
                    /\ bs[k].id = k - 1
                    /\ Len(bs[k].sections) >= 1
                    /\ Len(bs[k].sections) <= size
                    /\ k < Len(bs) => Len(bs[k].sections) = size
                    /\ bs[k].status = "pending"
              /\ (Len(fin.sections) = 7 /\ size = 3)
                    => /\ [k \in 1..Len(bs) |-> Len(bs[k].sections)] = <<3, 3, 1>>
                       /\ [k \in 1..Len(bs) |-> bs[k].id] = <<0, 1, 2>>

C18_Witness ==
    /\ fout.op = "create_batches"
    /\ Len(fin.sections) = 7
    /\ fin.batch_size = 3
    /\ Len(fout.value) = 3
    /\ Len(fout.value[3].sections) = 1

\* the value at 0-based index idx of the ascending order of the lengths
C19_OrderStatistic(sections, idx) ==
    CHOOSE v \in {sections[i].text_length : i \in 1..Len(sections)} :
        /\ Cardinality({i \in 1..Len(sections) : sections[i].text_length < v}) <= idx
        /\ Cardinality({i \in 1..Len(sections) : sections[i].text_length <= v}) > idx

\* C19: for a non-empty section list of size N, _calculate_optimal_batch_size
\* takes P90 = the element at index floor(0.9 * N) of the ascending text
\* lengths and returns 2 if P90 > 5000, 3 if P90 > 3000, 5 if P90 > 1500 and
\* 10 otherwise; nine lengths 100 and one 6000 give 2.
C19_BatchSizeFromP90 ==
    (fout.op = "optimal_batch_size" /\ Len(fin.sections) >= 1)
        => LET n == Len(fin.sections)
               p90 == C19_OrderStatistic(fin.sections, (9 * n) \div 10)
           IN /\ ~fout.raised
              /\ fout.value \in {2, 3, 5, 10}
              /\ fout.value = 2 <=> p90 > 5000
              /\ fout.value = 3 <=> (p90 > 3000 /\ p90 <= 5000)
              /\ fout.value = 5 <=> (p90 > 1500 /\ p90 <= 3000)
              /\ fout.value = 10 <=> p90 <= 1500
              /\ [i \in 1..n |-> fin.sections[i].text_length]
                    = [i \in 1..10 |-> IF i <= 9 THEN 100 ELSE 6000]
                    => fout.value = 2

C19_Witness ==
    /\ fout.op = "optimal_batch_size"
    /\ Len(fin.sections) = 10
    /\ fin.sections[10].text_length = 6000
    /\ \A i \in 1..9 : fin.sections[i].text_length = 100
    /\ fout.value = 2

----------------------------------------------------------------------------
(* SpecMetrics: two services of one process are configured, extended and    *)
(* asked for metrics and classifications, in any order.  thr[i] is the      *)
(* configuration of service i; LEGAL_TERMS is the one set both share.       *)

Instances == {1, 2}

\* texts for the metrics: with and without legal terms of the literal, and
\* made of the word "contrato"
MetricTexts ==
    {[length |-> 400, diversity |-> 20, sentences |-> 3,
      term_density |-> d, citations |-> c, article |-> FALSE, concepts |-> c,
      keywords |-> d, connectors |-> 0, paragraphs |-> 2, contrato |-> k] :
        d \in {0, 100}, c \in {0, 3}, k \in BOOLEAN}

InitMetrics ==
    /\ pc = "metrics"
    /\ thr = [i \in Instances |-> DefaultService]
    /\ LEGAL_TERMS = LegalTermsLiteral
    /\ cin = None
    /\ cout = [op |-> "none"]
    /\ vq = <<>>
    /\ vres = None
    /\ fin = None
    /\ fout = None
    /\ batches = <<>>
    /\ secStatus = <<>>
    /\ cur = 0
    /\ all_questions = <<>>
    /\ total_tokens = 0
    /\ total_cost = 0
    /\ batches_successful = 0
    /\ batches_failed = 0
    /\ last = [op |-> "none"]
    /\ result = None
    /\ request = None
    /\ faults = 0
    /\ experiment = "none"
    /\ pin = None
    /\ pout = None

\* service i: set_thresholds(relevant, review, auto_conserve_length)
CallSetThresholds ==
    /\ pc = "metrics"
    /\ \E i \in Instances, relevant \in {700000, 900000} :
         thr' = [thr EXCEPT ![i].threshold_relevant = relevant]
    /\ UNCHANGED <<pc, cin, cout, LEGAL_TERMS>>
    /\ UNCHANGED execVars /\ UNCHANGED parseVars
    /\ UNCHANGED valVars /\ UNCHANGED fnVars

\* service i: set_weights(...)
CallSetWeights ==
    /\ pc = "metrics"
    /\ \E i \in Instances, w \in {<<30, 40, 20, 10>>, <<25, 25, 25, 25>>} :
         thr' = [thr EXCEPT ![i].weight_as = w[1], ![i].weight_rj = w[2],
                            ![i].weight_dc = w[3], ![i].weight_cc = w[4]]
    /\ UNCHANGED <<pc, cin, cout, LEGAL_TERMS>>
    /\ UNCHANGED execVars /\ UNCHANGED parseVars
    /\ UNCHANGED valVars /\ UNCHANGED fnVars

\* service i: add_domain_terms(terms) updates self.LEGAL_TERMS, which is the
\* set of the class
CallAddDomainTerms ==
    /\ pc = "metrics"
    /\ \E i \in Instances, terms \in {{"contrato"}, {"ley"}} :
         LEGAL_TERMS' = LEGAL_TERMS \cup terms
    /\ UNCHANGED <<pc, thr, cin, cout>>
    /\ UNCHANGED execVars /\ UNCHANGED parseVars
    /\ UNCHANGED valVars /\ UNCHANGED fnVars

\* service i: classify(section)
CallClassify ==
    /\ pc = "metrics"
    /\ \E i \in Instances, t \in MetricTexts :
         /\ cin' = t
         /\ cout' = [op |-> "classify", instance |-> i,
                     metrics |-> ClassifyText(thr[i], t).metrics,
                     classification |-> ClassifyText(thr[i], t).classification]
    /\ UNCHANGED <<pc, thr, LEGAL_TERMS>>
    /\ UNCHANGED execVars /\ UNCHANGED parseVars
    /\ UNCHANGED valVars /\ UNCHANGED fnVars

\* service i: calculate_metrics(text)
CallCalculateMetrics ==
    /\ pc = "metrics"
    /\ \E i \in Instances, t \in MetricTexts :
         /\ cin' = t
         /\ cout' = [op |-> "calculate_metrics", instance |-> i,
                     metrics |-> CalculateMetrics(t, LEGAL_TERMS)]
    /\ UNCHANGED <<pc, thr, LEGAL_TERMS>>
    /\ UNCHANGED execVars /\ UNCHANGED parseVars
    /\ UNCHANGED valVars /\ UNCHANGED fnVars

NextMetrics ==
    \/ CallSetThresholds
    \/ CallSetWeights
    \/ CallAddDomainTerms
    \/ CallClassify
    \/ CallCalculateMetrics

SpecMetrics == InitMetrics /\ [][NextMetrics]_vars

\* C20: calculate_metrics is a pure, deterministic function of the text: on
\* every service and after any operations (classify, set_thresholds,
\* set_weights, add_domain_terms on another service) it returns for a text the
\* four metrics a fresh service returns for it, and it changes no state.
C20_MetricsDependOnTextOnly ==
    /\ [](cout.op = "calculate_metrics"
            => cout.metrics = CalculateMetrics(cin, LegalTermsLiteral))
    /\ [][cout'.op = "calculate_metrics" /\ cout' # cout
            => thr' = thr /\ LEGAL_TERMS' = LEGAL_TERMS]_vars

\* C21: the four metric weights always sum to 1.0: weights that do not are
\* rejected instead of stored, so after any set_weights calls the weights
\* get_weights returns sum to 1.0, and classify never fails because of them.
C21_WeightsSumToOne ==
    /\ pc \in {"service", "classified"}
        => thr.weight_as + thr.weight_rj + thr.weight_dc + thr.weight_cc = 100
    /\ pc = "classified" => ~cout.raised

\* C22: the value objects fail fast: ClassificationMetrics with a metric
\* outside [0, 100] and ClassificationResult with a score outside [0, 1] raise,
\* so every ClassificationResult classify returns has 0 <= score <= 1 (and
\* classify returns none when the weighted score is outside that range).
C22_ValueObjectsFailFast ==
    /\ pc = "constructed"
        => /\ cout.metrics_raised
                <=> \E f \in DOMAIN cin.metrics :
                       cin.metrics[f] < 0 \/ cin.metrics[f] > 1000000
           /\ cout.result_raised <=> (cin.score < 0 \/ cin.score > 1000000)
    /\ pc = "classified"
        => /\ ~cout.raised => (0 <= cout.score /\ cout.score <= 1000000)
           /\ cout.raised => (cout.score < 0 \/ cout.score > 1000000)

C22_Witness ==
    /\ pc = "classified"
    /\ cout.raised
    /\ cout.score > 1000000
    /\ thr.weight_as = 100

\* C23: a question fresh from a factory method has the factory's type tag, the
\* content built from the arguments, question_text equal to the primary text,
\* no validation errors, and the initial status the unit test asserts, PENDING.
C23_FactoryGivesPending ==
    pc = "parsed" =>
        \A i \in DOMAIN pout.questions :
            LET q == pout.questions[i]
            IN /\ q.type = "flashcards"
               /\ q.question_text = q.anverso
               /\ q.status = "pending"

-----------------------------------------------------------------------------
(* SpecGenerate: BaseLLMBackend.generate, one request; each Attempt step is  *)
(* one iteration of the retry loop of lines 205-224                         *)

MaxRetryAttempts == 3

\* the content of the LLMResponse _call_api returns: a str with or without a
\* markdown fence around a body that is valid JSON or not, or no str
LLMContents ==
    {[t |-> "str", fence |-> f, valid |-> v] :
        f \in {"none", "json", "plain"}, v \in BOOLEAN} \cup {[t |-> "list"]}

\* _parse_json_response: json.loads of the content, else of the body of its
\* first fence (raising JSONDecodeError when that is no JSON), else the str
ParseJsonResponse(content) ==
    IF content.fence = "none"
    THEN [raised |-> FALSE,
          value |-> IF content.valid THEN [t |-> "parsed"] ELSE content]
    ELSE IF content.valid
         THEN [raised |-> FALSE, value |-> [t |-> "parsed"]]
         ELSE [raised |-> TRUE, value |-> None]

InitGenerate ==
    /\ pc = "generate"
    /\ \E n \in 0..MaxRetryAttempts, caching \in BOOLEAN, cached \in BOOLEAN,
          fmt \in {"text", "json"} :
         fin = [retry_attempts |-> n, context_caching |-> caching,
                cached |-> caching /\ cached, response_format |-> fmt]
    /\ fout = [attempt |-> 0, calls |-> 0, api_failures |-> 0,
               outcome |-> "none", content |-> None, from_cache |-> FALSE,
               stored |-> FALSE]
    /\ batches = <<>>
    /\ secStatus = <<>>
    /\ cur = 0
    /\ all_questions = <<>>
    /\ total_tokens = 0
    /\ total_cost = 0
    /\ batches_successful = 0
    /\ batches_failed = 0
    /\ last = [op |-> "none"]
    /\ result = None
    /\ request = None
    /\ faults = 0
    /\ experiment = "none"
    /\ pin = None
    /\ pout = None
    /\ thr = None
    /\ cin = None
    /\ cout = None
    /\ LEGAL_TERMS = LegalTermsLiteral
    /\ vq = <<>>
    /\ vres = None

\* lines 190-202: the cache lookup, which returns the cached response
CacheLookup ==
    /\ pc = "generate"
    /\ IF fin.context_caching /\ fin.cached
       THEN /\ fout' = [fout EXCEPT !.outcome = "returned",
                                    !.content = [t |-> "cached"],
                                    !.from_cache = TRUE]
            /\ pc' = "generated"
       ELSE /\ fout' = fout
            /\ pc' = "retrying"
    /\ UNCHANGED fin
    /\ UNCHANGED execVars /\ UNCHANGED parseVars /\ UNCHANGED clsVars
    /\ UNCHANGED valVars

\* lines 205-224, one iteration: _call_api raises or returns a response; a
\* str content is parsed when the format is json, inside the same try block
Attempt ==
    /\ pc = "retrying"
    /\ fout.attempt < fin.retry_attempts
    /\ \/ /\ fout' = [fout EXCEPT !.attempt = @ + 1, !.calls = @ + 1,
                                  !.api_failures = @ + 1]
          /\ pc' = "retrying"
       \/ \E content \in LLMContents :
            LET parse == fin.response_format = "json" /\ content.t = "str"
                parsed == IF parse THEN ParseJsonResponse(content)
                          ELSE [raised |-> FALSE, value |-> content]
            IN IF parsed.raised
               THEN /\ fout' = [fout EXCEPT !.attempt = @ + 1, !.calls = @ + 1]
                    /\ pc' = "retrying"
               ELSE /\ fout' = [fout EXCEPT !.calls = @ + 1,
                                            !.outcome = "returned",
                                            !.content = parsed.value,
                                            !.stored = fin.context_caching]
                    /\ pc' = "generated"
    /\ UNCHANGED fin
    /\ UNCHANGED execVars /\ UNCHANGED parseVars /\ UNCHANGED clsVars
    /\ UNCHANGED valVars

\* lines 226-229: the loop ended without a return
Exhausted ==
    /\ pc = "retrying"
    /\ fout.attempt = fin.retry_attempts
    /\ fout' = [fout EXCEPT !.outcome = "ConnectionError"]
    /\ pc' = "generated"
    /\ UNCHANGED fin
    /\ UNCHANGED execVars /\ UNCHANGED parseVars /\ UNCHANGED clsVars
    /\ UNCHANGED valVars

NextGenerate == CacheLookup \/ Attempt \/ Exhausted

SpecGenerate == InitGenerate /\ [][NextGenerate]_vars

\* C24: generate calls _call_api at most retry_attempts times per request,
\* returns the response of the first attempt whose API call succeeded without
\* any further API call, and raises ConnectionError only after retry_attempts
\* consecutive API failures.
C24_RetriesOnlyApiFailures ==
    pc \in {"retrying", "generated"} =>
        /\ fout.calls <= fin.retry_attempts
        /\ fout.outcome = "returned" /\ ~fout.from_cache
              => fout.calls = fout.api_failures + 1
        /\ fout.outcome = "ConnectionError"
              => fout.api_failures = fin.retry_attempts

-----------------------------------------------------------------------------
(* SpecPipeline: RunPipelineUseCase.execute; each step is one stage block of *)
(* lines 131-203, the outcome of the stage's use case chosen by the          *)
(* environment                                                               *)

PipelineStages == <<"extract", "classify", "generate", "validate">>

\* _build_error_result: success False with the stage results so far
_build_error_result(stages) == [success |-> FALSE, stages |-> stages]

InitPipeline ==
    /\ pc = "extract"
    /\ \E skip \in SUBSET Range(PipelineStages), stop \in BOOLEAN :
         fin = [skip_stages |-> skip, stop_on_error |-> stop]
    /\ fout = [stages |-> <<>>, ran |-> <<>>, result |-> None]
    /\ batches = <<>>
    /\ secStatus = <<>>
    /\ cur = 0
    /\ all_questions = <<>>
    /\ total_tokens = 0
    /\ total_cost = 0
    /\ batches_successful = 0
    /\ batches_failed = 0
    /\ last = [op |-> "none"]
    /\ result = None
    /\ request = None
    /\ faults = 0
    /\ experiment = "none"
    /\ pin = None
    /\ pout = None
    /\ thr = None
    /\ cin = None
    /\ cout = None
    /\ LEGAL_TERMS = LegalTermsLiteral
    /\ vq = <<>>
    /\ vres = None

\* one stage block: a skipped stage is passed over (a skipped extraction
\* loads the existing data instead, lines 145-154); otherwise the stage's
\* use case runs and raises, or its result is appended and a failure ends
\* the pipeline when stop_on_error is set
RunStage(i) ==
    /\ pc = PipelineStages[i]
    /\ LET name == PipelineStages[i]
           next == IF i < Len(PipelineStages) THEN PipelineStages[i + 1]
                   ELSE "result"
       IN IF name \in fin.skip_stages
          THEN \E loaded \in IF i = 1 THEN BOOLEAN ELSE {TRUE} :
                 IF loaded
                 THEN fout' = fout /\ pc' = next
                 ELSE /\ fout' = [fout EXCEPT
                                    !.result = _build_error_result(fout.stages)]
                      /\ pc' = "returned"
          ELSE \E outcome \in {"success", "failure", "raise"} :
                 LET stages == Append(fout.stages,
                                 [stage_name |-> name,
                                  success |-> outcome = "success"])
                     ran == Append(fout.ran, name)
                 IN IF outcome = "raise"
                    THEN /\ fout' = [fout EXCEPT !.ran = ran,
                                       !.result = _build_error_result(fout.stages)]
                         /\ pc' = "returned"
                    ELSE IF outcome = "failure" /\ fin.stop_on_error
                    THEN /\ fout' = [stages |-> stages, ran |-> ran,
                                     result |-> _build_error_result(stages)]
                         /\ pc' = "returned"
                    ELSE /\ fout' = [fout EXCEPT !.stages = stages, !.ran = ran]
                         /\ pc' = next
    /\ UNCHANGED fin
    /\ UNCHANGED execVars /\ UNCHANGED parseVars /\ UNCHANGED clsVars
    /\ UNCHANGED valVars

\* lines 205-224: the final result
PipelineResult ==
    /\ pc = "result"
    /\ fout' = [fout EXCEPT !.result = [success |-> TRUE, stages |-> fout.stages]]
    /\ pc' = "returned"
    /\ UNCHANGED fin
    /\ UNCHANGED execVars /\ UNCHANGED parseVars /\ UNCHANGED clsVars
    /\ UNCHANGED valVars

NextPipeline ==
    \/ RunStage(1) \/ RunStage(2) \/ RunStage(3) \/ RunStage(4)
    \/ PipelineResult

SpecPipeline == InitPipeline /\ [][NextPipeline]_vars

\* the position of a stage in the order of the pipeline
C25_Pos(name) == CHOOSE i \in DOMAIN PipelineStages : PipelineStages[i] = name

\* the stages run so far are non-skipped ones, in pipeline order, each once
C25_InOrder ==
    /\ \A k \in DOMAIN fout.ran : fout.ran[k] \notin fin.skip_stages
    /\ \A k, l \in DOMAIN fout.ran :
          k < l => C25_Pos(fout.ran[k]) < C25_Pos(fout.ran[l])

\* with stop_on_error a reported failure is the last stage run, and the
\* result is an error whose stages end at the failed stage
C25_StopsAtFailure ==
    fin.stop_on_error =>
        \A k \in DOMAIN fout.stages :
            ~fout.stages[k].success
               => /\ k = Len(fout.stages)
                  /\ fout.ran = [j \in DOMAIN fout.stages |-> fout.stages[j].stage_name]
                  /\ pc = "returned"
                  /\ fout.result = [success |-> FALSE, stages |-> fout.stages]

\* C25: execute runs the stages not skipped in the order extract, classify,
\* generate, validate, each at most once and never a skipped one; with
\* stop_on_error no stage runs after a reported failure and the result is an
\* error whose stages end at the failed stage; success=True is returned only
\* if every stage that ran succeeded.
C25_SuccessMeansAllStagesSucceeded ==
    pc \in Range(PipelineStages) \cup {"result", "returned"} =>
        /\ C25_InOrder
        /\ C25_StopsAtFailure
        /\ (pc = "returned" /\ fout.result.success)
              => \A k \in DOMAIN fout.stages : fout.stages[k].success

\* C26: every question _parse_response returns for a non-empty batch has an
\* origin.section_id that is the id of one of the sections of the batch,
\* whatever the model reported as section index (an integer in or out of
\* range, a numeric string, a float, a boolean, null or nothing).
C26_SectionIdIsOfTheBatch ==
    (pc = "parsed" /\ Len(pin.sections) >= 1) =>
        \A i \in DOMAIN pout.questions :
            pout.questions[i].section_id \in Range(pin.sections)

\* C27: every question _parse_response returns carries the document_id of
\* the request, whatever the origin object of the model contains, so that
\* find_all(document_id) returns every question saved for the document.
C27_DocumentIdIsOfTheRequest ==
    pc = "parsed" =>
        \A i \in DOMAIN pout.questions :
            pout.questions[i].document_id = pin.document_id

\* C28: find_relevant(document_id) returns a stored section exactly when
\* Section.is_relevant is true for it, whether it was classified or not.
C28_FindRelevantIsIsRelevant ==
    (pc = "loop" /\ request.only_relevant) =>
        \A s \in Range(request.stored) :
            s \in Range(find_relevant(request)) <=> is_relevant(request.labels[s])

\* the batches execute counted as successful: those it completed
C29_Successful == SelectSeq(batches, LAMBDA b : b.result # None)

RECURSIVE C29_Sum(_)
\* the sum of a sequence of numbers
C29_Sum(nums) ==
    IF nums = <<>> THEN 0 ELSE Head(nums) + C29_Sum(Tail(nums))

\* one number per successful batch
C29_Questions == [i \in DOMAIN C29_Successful |-> Len(C29_Successful[i].questions)]
C29_Tokens == [i \in DOMAIN C29_Successful |-> C29_Successful[i].result.tokens_used]
C29_Costs == [i \in DOMAIN C29_Successful |-> C29_Successful[i].result.cost_usd]

\* C29: when execute returns success=True, batches_successful + batches_failed
\* is total_batches, questions_valid + questions_invalid is
\* questions_generated, questions_generated is the number of questions of the
\* batches counted successful, and tokens_used and cost_usd are the sums over
\* the successful batches only.
C29_ResultCountsAddUp ==
    (pc = "done" /\ result.success) =>
        /\ result.batches_successful + result.batches_failed = result.total_batches
        /\ result.total_batches = Len(batches)
        /\ result.batches_successful = Len(C29_Successful)
        /\ result.questions_valid + result.questions_invalid
              = result.questions_generated
        /\ result.questions_generated
              = C29_Sum(C29_Questions)
        /\ result.tokens_used
              = C29_Sum(C29_Tokens)
        /\ result.cost_usd
              = C29_Sum(C29_Costs)

C29_Witness ==
    /\ pc = "done"
    /\ result.success
    /\ result.batches_successful >= 1
    /\ result.batches_failed >= 1
    /\ result.questions_generated >= 1
    /\ result.tokens_used > 0

\* C30: every experiment execute creates is eventually closed: when execute
\* returns, with success or with an error, the experiment it created is
\* completed or failed, never left running.
C30_ExperimentClosedAtReturn ==
    (pc = "done" /\ experiment # "none") => experiment \in {"completed", "failed"}
====
